---- MODULE Spec2Model ----
(***************************************************************************)
(* Model of the delivery core of the logging library: the Logger           *)
(* (processLog, enqueueLogEntry, processQueue, writeToTransports,          *)
(* addTransport, clearTransports, child, close), the transports'           *)
(* admission rule (BaseTransport.shouldLog) and the log handlers of the    *)
(* console, file, HTTP and socket transports.                              *)
(*                                                                         *)
(* Execution model: JavaScript run-to-completion.  `active` is the frame   *)
(* that is running synchronously; while it is not idle nothing else runs.  *)
(* `microtasks` is the FIFO queue of promise continuations, `awaiting` the *)
(* continuations parked on a promise that has not settled yet, `timers`    *)
(* the pending setTimeout callbacks.                                       *)
(***************************************************************************)
EXTENDS Integers, Sequences, FiniteSets, TLC

\* ---------------------------------------------------------------- bounds
\* logging calls and close() calls issued on an asynchronous Logger
MaxCalls == 3
MaxCloseCalls == 2
\* the same on a synchronous Logger, where every call is its own coroutine
\* and close() finds the queue empty
MaxSyncCalls == 2
MaxSyncCloses == 0

\* logging calls on the Logger with the small queue
MaxQueueCalls == 5

\* Loggers (the root and those made by child()) and logging calls on them
MaxLoggers == 3
MaxChildCalls == 2

\* logging calls on the Logger whose level is configured
MaxLevelCalls == 2

\* logging calls on the Logger with one transport of this package
MaxAdmitCalls == 2

\* POSTs after which the batch timeout of the HTTP transport is left alone
MaxRequests == 2

\* HttpTransport on its own: transport.log calls, and the largest retryCount
MaxHttpCalls == 2
MaxRetryCount == 2

\* FileTransport on its own: transport.log calls, the largest maxFiles, and
\* time-based rotations
MaxFileCalls == 2
MaxBackups == 2
MaxTimeRotations == 1

\* WebSocketTransport on its own: transport.log calls, sockets made, and the
\* largest maxReconnectAttempts and maxBufferSize
MaxWsCalls == 3
MaxSockets == 3
MaxAttempts == 2
MaxBuffer == 2

\* the Logger whose transports are swapped: logging calls, clearTransports
\* calls and addTransport calls
MaxClearLogs == 2
MaxClears == 1
MaxAdds == 1

\* logging calls on the asynchronous Logger whose drain is followed to its end
MaxDrainCalls == 3

\* the HttpTransport in batch mode: log calls and batch POSTs
MaxBatchCalls == 3
MaxBatchPosts == 3

\* SpecFamily: Loggers (the first one and its descendants) and logging calls
MaxFamily == 2

MaxFamilyCalls == 2

\* SpecFlush: log calls, and the buffer length up to which a flush is followed
MaxFlushCalls == 2

MaxFlushLen == 4

\* SpecTime: log calls and periodic checks
MaxTimeCalls == 1

MaxChecks == 2

\* calls of JsonFormat.format
MaxFormats == 1

\* transports the application constructs
MaxConstructs == 3

\* ------------------------------------------------------------ log levels
\* enum LogLevel, in declaration order (Object.values(LogLevel))
LogLevelValues == <<"debug", "info", "warn", "error", "fatal">>

LevelSet == {LogLevelValues[i] : i \in 1..Len(LogLevelValues)}

\* Array.prototype.indexOf on Object.values(LogLevel): -1 when absent
IndexOfLevel(level) ==
  IF level \in LevelSet
    THEN (CHOOSE i \in 1..Len(LogLevelValues) : LogLevelValues[i] = level) - 1
    ELSE -1

ShouldLogStrict(minLevel, level) ==
  IF minLevel = "unset" THEN TRUE
  ELSE IndexOfLevel(level) > IndexOfLevel(minLevel)

\* BaseTransport.shouldLog; minLevel "unset" is the falsy options.minLevel
ShouldLog(minLevel, level) ==
  IF minLevel = "unset" THEN TRUE
  ELSE IndexOfLevel(level) >= IndexOfLevel(minLevel)

\* -------------------------------------------------------------- metadata
\* A metadata object is a set of <<key, value>> pairs with distinct keys;
\* `def` is FALSE for undefined.
MetaKeys == {"a", "b"}
MetaVals == {"x", "y"}

Undefined == [def |-> FALSE, kv |-> {}]

Obj(kv) == [def |-> TRUE, kv |-> kv]

Keys(kv) == {p[1] : p \in kv}

MetaObjects ==
  {Obj(kv) : kv \in {s \in SUBSET (MetaKeys \X MetaVals) :
                       \A p \in s, q \in s : p[1] = q[1] => p = q}}

\* { ...a, ...b }: the keys of b override those of a
Spread(a, b) == {p \in a : p[1] \notin Keys(b)} \cup b

CombinedMetaChildWins(meta, additionalMeta) ==
  Obj(Spread(IF additionalMeta.def THEN additionalMeta.kv ELSE {}, meta.kv))

\* child(): combinedMeta = { ...meta, ...(additionalMeta || {}) }
CombinedMeta(meta, additionalMeta) ==
  Obj(Spread(meta.kv, IF additionalMeta.def THEN additionalMeta.kv ELSE {}))

\* ----------------------------------------------------------------- state
VARIABLES
  options,            \* per Logger: this.options
  transports,         \* per Logger: this.transports, a reference into `arrays`
  queue,              \* per Logger: this.queue (entry ids)
  isProcessingQueue,  \* per Logger
  isClosed,           \* per Logger
  proxyMeta,          \* per Logger: the fixed meta of the Proxy child() wraps it in
  arrays,             \* heap of array objects holding transport ids
  tattr,              \* per transport instance: kind, minLevel, hasClose
  entries,            \* every LogEntry created, in creation order
  active,             \* the frame running synchronously
  microtasks,         \* FIFO of ready promise continuations
  awaiting,           \* continuations waiting on a pending promise
  timers,             \* pending setTimeout(processRemainingLogs, 100), by close call
  closes,             \* per close() call: its Logger and whether resolve() ran
  tlog,               \* per transport instance: the calls made on it, in order
  consoleOutput,      \* what ConsoleTransport.log handed to console.log
  tstate,             \* per transport instance: its own fields (file, HTTP, socket)
  diag,               \* console.warn / console.error counts, exceptions
  hist                \* observation: calls issued, entries popped / evicted / done

vars == <<options, transports, queue, isProcessingQueue, isClosed, proxyMeta,
          arrays, tattr, entries, active, microtasks, awaiting, timers, closes,
          tlog, consoleOutput, tstate, diag, hist>>

loggerVars == <<options, transports, queue, isProcessingQueue, isClosed, proxyMeta>>

\* ----------------------------------------------------------------- frames
\* One shape for every continuation:
\*   k     "idle" | "wtt" (writeToTransports) | "drain" (processQueue)
\*         | "prl" (processRemainingLogs after await processQueue())
\*         | "closeT" (processRemainingLogs closing transports) | "clear"
\*   l     Logger,  e  entry id,  arr  array being iterated,  idx  position
\*   drain TRUE when a processQueue awaits this writeToTransports
\*   cw    close call awaiting that processQueue (0: none), or the close call
\*   rej   the awaited promise rejected
Frame(k, l, e, arr, idx, drain, cw, rej) ==
  [k |-> k, l |-> l, e |-> e, arr |-> arr, idx |-> idx, drain |-> drain,
   cw |-> cw, rej |-> rej]

Idle == Frame("idle", 0, 0, 0, 0, FALSE, 0, FALSE)

WttFrame(l, e, drain, cw) == Frame("wtt", l, e, transports[l], 1, drain, cw, FALSE)

Loggers == 1..Len(isClosed)

TransportIds == 1..Len(tattr)

\* DEFAULT_OPTIONS
DefaultOptions ==
  [level |-> "debug", transports |-> <<>>, console |-> "on", file |-> "off",
   includeStackTrace |-> FALSE, asyncLogging |-> FALSE, logQueue |-> 1000]

\* A transport instance as constructed: its class, whether it has a close
\* method, and its options (0 / FALSE where the class has no such option);
\* target is whether options.url (options.filename) is given, directory
\* whether options.directory names a directory that does not exist; filename
\* and dirname are options.filename and options.directory as the sequences of
\* their characters
TransportAttr(kind, minLevel, hasClose) ==
  [kind |-> kind, minLevel |-> minLevel, hasClose |-> hasClose,
   batchLogs |-> FALSE, batchSize |-> 0, retryCount |-> 0,
   maxSize |-> 0, maxFiles |-> 0, mode |-> "a", datePattern |-> FALSE,
   bufferWhenDisconnected |-> FALSE, maxBufferSize |-> 0,
   reconnect |-> FALSE, maxReconnectAttempts |-> 0, urlThrows |-> FALSE,
   target |-> TRUE, directory |-> FALSE, filename |-> <<>>, dirname |-> <<>>]

ConsoleAttr(minLevel) == TransportAttr("console", minLevel, FALSE)

\* FileTransport constructor: `maxSize: 10 * 1024 * 1024`
DefaultMaxSize == 10485760

\* the file name 'app.log'
AppLog == <<"a", "p", "p", ".", "l", "o", "g">>

\* new FileTransport(options) with the defaults of the constructor
FileAttr(minLevel) ==
  [TransportAttr("file", minLevel, TRUE) EXCEPT
     !.maxSize = DefaultMaxSize, !.maxFiles = 5, !.filename = AppLog]

\* a FileTransport with options of its own; datePattern is whether one is set
FileRotAttr(minLevel, maxSize, maxFiles, mode, datePattern) ==
  [TransportAttr("file", minLevel, TRUE) EXCEPT
     !.maxSize = maxSize, !.maxFiles = maxFiles, !.mode = mode,
     !.datePattern = datePattern, !.filename = AppLog]

\* a FileTransport that rotates at two units, with a file name and a
\* directory of its own
FileNameAttr(dirname, filename, maxFiles) ==
  [FileRotAttr("unset", 2, maxFiles, "a", FALSE) EXCEPT
     !.filename = filename, !.dirname = dirname]

\* new HttpTransport(options): retryCount is 3 unless the options set it
HttpAttr(minLevel, batchLogs, batchSize) ==
  [TransportAttr("http", minLevel, TRUE) EXCEPT
     !.batchLogs = batchLogs, !.batchSize = batchSize, !.retryCount = 3]

\* an HttpTransport in immediate mode with a retryCount of its own
HttpRetryAttr(minLevel, retryCount) ==
  [HttpAttr(minLevel, FALSE, 0) EXCEPT !.retryCount = retryCount]

\* new WebSocketTransport(options): reconnect is true and
\* maxReconnectAttempts 5 unless the options set them
WebSocketAttr(minLevel, bufferWhenDisconnected, maxBufferSize) ==
  [TransportAttr("ws", minLevel, TRUE) EXCEPT
     !.bufferWhenDisconnected = bufferWhenDisconnected,
     !.maxBufferSize = maxBufferSize,
     !.reconnect = TRUE, !.maxReconnectAttempts = 5]

\* a WebSocketTransport with reconnection options of its own; urlThrows is
\* whether `new WebSocket(url)` throws for its url
WsReconnectAttr(buffering, maxBufferSize, reconnect, maxAttempts, urlThrows) ==
  [WebSocketAttr("unset", buffering, maxBufferSize) EXCEPT
     !.reconnect = reconnect, !.maxReconnectAttempts = maxAttempts,
     !.urlThrows = urlThrows]

\* a transport that is not one of the classes of this package
UserAttr(minLevel, hasClose) == TransportAttr("user", minLevel, hasClose)

\* The fields of a transport instance after its constructor:
\*   writes    FileTransport: entries handed to writeStream.write
\*   logQueue  HttpTransport.logQueue
\*   requests  HttpTransport: the bodies of the POSTs issued (entry ids)
\*   inflight  HttpTransport: batch requests whose fetch has not settled
\*   timer     HttpTransport: the batch timeout is pending
\*   sends     HttpTransport: the sendLog calls of immediate mode, each with
\*             its entry, its retryAttempt and where it stands ("fetch":
\*             awaiting the POST, "delay": awaiting retryDelay, "sent",
\*             "gaveup": returned)
\*   closing   HttpTransport: the batch requests a close() call is awaiting
\*   closed    close() was called;  closeResolved  its promise resolved
\*   currentSize, writeStream (0: null, else an index of streams), interval
\*             (rotationCheckInterval is set): the fields of FileTransport
\*   streams   the fs.WriteStreams made so far: fd is the file the stream has
\*             open (0: not yet opened), pending the chunks written to the
\*             stream and not yet on disk, ended whether end() was called
\*   disk      the directory: the file at the log path (index 0) and at the
\*             backup paths (index i for name.i.ext), 0 where none exists
\*   files     the content of each file ever created, a sequence of lines:
\*             an entry id, or 0 for a line found at construction
\*   dirCreated  ensureDirectoryExists made the directory
\*   rotations the rotateFile calls that passed the guard (observation): the
\*             file found at the log path, its content then, and the trigger
\*   socket    WebSocketTransport.socket (0: null, else an index of sockets)
\*   sockets   the readyState of each WebSocket made so far
\*   reconnectAttempts, reconnectTimer (the timeout is pending), reconnect
\*             (options.reconnect, which close() changes)
\*   closeEvents  handleClose calls so far (observation)
\*   open      WebSocketTransport: this.socket.readyState is OPEN
\*   buffer    WebSocketTransport.buffer
\*   sent      WebSocketTransport: entries passed to socket.send
\*   dropped   WebSocketTransport: admitted entries discarded (observation)
FieldDefaults(attr) ==
  [writes |-> <<>>, logQueue |-> <<>>, requests |-> <<>>, inflight |-> {},
   timer |-> FALSE,
   sends |-> <<>>, closing |-> {}, closed |-> FALSE, closeResolved |-> FALSE,
   currentSize |-> 0, writeStream |-> 0, interval |-> FALSE, streams |-> <<>>,
   disk |-> [i \in 0..(MaxBackups + 1) |-> 0], files |-> <<>>, rotations |-> <<>>,
   dirCreated |-> FALSE, batchFailed |-> {},
   socket |-> 0, sockets |-> <<>>, reconnectAttempts |-> 0,
   reconnectTimer |-> FALSE, reconnect |-> attr.reconnect, closeEvents |-> 0,
   open |-> FALSE, buffer |-> <<>>, sent |-> <<>>, dropped |-> {},
   throws |-> 0, flushed |-> <<>>]

\* Buffer.byteLength(logString): a line is one unit long, two with a stack
\* trace appended; a line found at construction is one unit long
ByteLength(e) == IF e # 0 /\ entries[e].stackTrace THEN 2 ELSE 1

RECURSIVE SizeOf(_)
\* fs.statSync(path).size of a file with this content
SizeOf(content) ==
  IF content = <<>> THEN 0 ELSE ByteLength(Head(content)) + SizeOf(Tail(content))

\* createWriteStream: end the stream at hand, make a new one on the log path
\* (fs.createWriteStream opens the file later, see FileStreamOpen)
CreateWriteStream(s) ==
  LET ended == IF s.writeStream # 0
                 THEN [s EXCEPT !.streams[s.writeStream].ended = TRUE]
                 ELSE s
  IN [ended EXCEPT !.streams = Append(@, [fd |-> 0, pending |-> <<>>, ended |-> FALSE]),
                   !.writeStream = Len(s.streams) + 1]

MaxIndexOneMore(attr) == IF attr.maxFiles = 0 THEN 5 ELSE attr.maxFiles + 1

\* renameOldFiles: `const maxIndex = this.options.maxFiles || 5`
MaxIndex(attr) == IF attr.maxFiles = 0 THEN 5 ELSE attr.maxFiles

\* getFilePath: `dir ? path.join(dir, this.options.filename) : this.options.filename`
GetFilePath(attr) ==
  IF attr.dirname # <<>> THEN attr.dirname \o <<"/">> \o attr.filename ELSE attr.filename

\* String.prototype.lastIndexOf of one character, 1-based, 0 where absent
LastIndexOf(p, c) ==
  LET at == {i \in 1..Len(p) : p[i] = c}
  IN IF at = {} THEN 0 ELSE CHOOSE i \in at : \A j \in at : j <= i

\* path.extname: from the last '.' of the last path segment to the end, ''
\* where there is none or where it is the first character of that segment
Extname(p) ==
  LET slash == LastIndexOf(p, "/")
      dot == LastIndexOf(p, ".")
  IN IF dot <= slash + 1 THEN <<>> ELSE SubSeq(p, dot, Len(p))

\* String.prototype.slice(0, end): a negative end counts from the end of the
\* string, 0 (and -0) is the start
Slice0(p, end) ==
  IF end < 0 THEN SubSeq(p, 1, IF Len(p) + end < 0 THEN 0 ELSE Len(p) + end)
  ELSE SubSeq(p, 1, IF end < Len(p) THEN end ELSE Len(p))

\* the decimal digits of an index below 10, as a template literal prints it
Digits(i) == <<<<"0", "1", "2", "3", "4", "5", "6", "7", "8", "9">>[i + 1]>>

\* renameOldFiles: `${basePath}.${i}${ext}` with ext = path.extname(currentFilePath)
\* and basePath = currentFilePath.slice(0, -ext.length)
BackupPath(attr, i) ==
  LET currentFilePath == GetFilePath(attr)
      ext == Extname(currentFilePath)
      basePath == Slice0(currentFilePath, 0 - Len(ext))
  IN basePath \o <<".">> \o Digits(i) \o ext

RECURSIVE ShiftUp(_, _)
\* renameOldFiles: `for (let i = maxIndex - 1; i >= 1; i--)` renaming name.i
\* to name.(i+1) where name.i exists (renameSync replaces the target)
ShiftUp(disk, i) ==
  IF i < 1 THEN disk
  ELSE ShiftUp(IF disk[i] # 0 THEN [disk EXCEPT ![i + 1] = disk[i], ![i] = 0] ELSE disk,
               i - 1)

\* renameOldFiles: unlink name.maxIndex, shift the others up, rename the log
\* file to name.1; renameSync throws where the log file does not exist, and
\* the catch block logs it
RenameOldFiles(disk, attr) ==
  LET maxIndex == MaxIndex(attr)
      unlinked == [disk EXCEPT ![maxIndex] = 0]
      shifted == ShiftUp(unlinked, maxIndex - 1)
  IN IF shifted[0] = 0 THEN shifted
     ELSE [shifted EXCEPT ![1] = shifted[0], ![0] = 0]

\* rotateFile, triggered by "size" or by "time"
RotateFile(s, attr, trigger) ==
  IF s.writeStream = 0 THEN s
  ELSE LET live == s.disk[0]
           ended == [s EXCEPT !.streams[s.writeStream].ended = TRUE,
                              !.writeStream = 0,
                              !.disk = RenameOldFiles(s.disk, attr),
                              !.rotations = Append(@,
                                 [file |-> live,
                                  content |-> IF live = 0 THEN <<>> ELSE s.files[live],
                                  backup |-> IF live = 0 THEN <<>> ELSE BackupPath(attr, 1),
                                  trigger |-> trigger]),
                              !.currentSize = 0]
       IN CreateWriteStream(ended)

\* checkFileSize, given what the file at the log path holds
CheckFileSize(s, attr) ==
  IF s.disk[0] # 0
    THEN LET sized == [s EXCEPT !.currentSize = SizeOf(s.files[s.disk[0]])]
         IN IF attr.maxSize # 0 /\ sized.currentSize >= attr.maxSize
              THEN RotateFile(sized, attr, "size")
              ELSE sized
    ELSE [s EXCEPT !.currentSize = 0]

\* FileTransport constructor, run where the log file exists with the lines
\* `old` or does not exist
FileConstruct(attr, exists, old) ==
  LET found == [FieldDefaults(attr) EXCEPT
                  !.disk[0] = IF exists THEN 1 ELSE 0,
                  !.files = IF exists THEN <<old>> ELSE <<>>]
      ensured == [found EXCEPT !.dirCreated = attr.directory]
  IN [CreateWriteStream(CheckFileSize(ensured, attr)) EXCEPT !.interval = attr.datePattern]

ReconnectsAtCeiling(reconnect, maxReconnectAttempts, reconnectAttempts) ==
  reconnect /\ (maxReconnectAttempts = 0 \/ reconnectAttempts <= maxReconnectAttempts)

\* handleClose: `this.options.reconnect && (!this.options.maxReconnectAttempts
\* || this.reconnectAttempts < (this.options.maxReconnectAttempts || 0))`
Reconnects(reconnect, maxReconnectAttempts, reconnectAttempts) ==
  reconnect /\ (maxReconnectAttempts = 0 \/ reconnectAttempts < maxReconnectAttempts)

\* scheduleReconnect: one timeout, set anew
ScheduleReconnect(s) ==
  [s EXCEPT !.reconnectAttempts = @ + 1, !.reconnectTimer = TRUE]

\* handleClose
HandleClose(s, attr) ==
  LET seen == [s EXCEPT !.closeEvents = @ + 1]
  IN IF Reconnects(s.reconnect, attr.maxReconnectAttempts, s.reconnectAttempts)
       THEN ScheduleReconnect(seen)
       ELSE seen

\* connect: nothing where a socket is CONNECTING or OPEN; else a new socket,
\* or handleClose where the WebSocket constructor throws
Connect(s, attr) ==
  IF s.socket # 0 /\ s.sockets[s.socket] \in {"CONNECTING", "OPEN"} THEN s
  ELSE IF attr.urlThrows THEN HandleClose(s, attr)
  ELSE [s EXCEPT !.sockets = Append(@, "CONNECTING"), !.socket = Len(s.sockets) + 1]

CloseSocketOnly(s) ==
  IF s.socket = 0 THEN s
  ELSE [s EXCEPT !.sockets[s.socket] =
                    IF @ \in {"OPEN", "CONNECTING"} THEN "CLOSING" ELSE @,
                 !.socket = 0, !.open = FALSE]

\* close(), the `if (this.socket)` block: reconnect is set to false, the
\* socket is closed if OPEN or CONNECTING, this.socket is set to null
CloseSocket(s) ==
  IF s.socket = 0 THEN s
  ELSE [s EXCEPT !.reconnect = FALSE,
                 !.sockets[s.socket] =
                    IF @ \in {"OPEN", "CONNECTING"} THEN "CLOSING" ELSE @,
                 !.socket = 0, !.open = FALSE]

\* The fields after `new X(options)`; a FileTransport finds no log file, a
\* WebSocketTransport has called connect()
NewTransportState(attr) ==
  CASE attr.kind = "file" -> FileConstruct(attr, FALSE, <<>>)
    [] attr.kind = "ws" -> Connect(FieldDefaults(attr), attr)
    [] attr.kind = "http" -> [FieldDefaults(attr) EXCEPT !.timer = attr.batchLogs]
    [] OTHER -> FieldDefaults(attr)

\* the constructor, past the test of options.url / options.filename
Constructed(attr, exists, old) ==
  IF attr.kind = "file" THEN FileConstruct(attr, exists, old) ELSE NewTransportState(attr)

ConstructorChecksLast(attr, exists, old) ==
  [threw |-> ~attr.target, s |-> Constructed(attr, exists, old)]

\* `new X(options)`: the constructors of FileTransport, HttpTransport and
\* WebSocketTransport throw where options.filename / options.url is missing,
\* before they do anything but initialise fields; s is what was done
Constructor(attr, exists, old) ==
  IF ~attr.target THEN [threw |-> TRUE, s |-> FieldDefaults(attr)]
  ELSE [threw |-> FALSE, s |-> Constructed(attr, exists, old)]

\* FileTransport.log past the level test: make a stream if there is none,
\* hand the line to the stream
FileLog(s, e) ==
  LET ready == IF s.writeStream = 0 THEN CreateWriteStream(s) ELSE s
  IN [ready EXCEPT !.writes = Append(@, e),
                   !.streams[ready.writeStream].pending = Append(@, e)]

\* { minLevel: this.options.level, ...this.options.console }: the option is
\* "off", "on" (true), "obj" (an object without minLevel) or a level (an
\* object that sets minLevel)
DefaultMinLevelFromOptionOnly(level, opt) == IF opt \in LevelSet THEN opt ELSE "unset"

DefaultMinLevel(level, opt) == IF opt \in LevelSet THEN opt ELSE level

\* setupDefaultTransports: the transports the constructor creates
SetupDefaultTransports(opts) ==
  (IF opts.console # "off"
     THEN <<ConsoleAttr(DefaultMinLevel(opts.level, opts.console))>> ELSE <<>>)
  \o
  (IF opts.file # "off"
     THEN <<FileAttr(DefaultMinLevel(opts.level, opts.file))>> ELSE <<>>)

\* The transport ids a new Logger(opts) holds: [...opts.transports] followed
\* by the ids of the default transports it creates
NewLoggerArray(opts, firstFree) ==
  opts.transports \o
  [i \in 1..Len(SetupDefaultTransports(opts)) |-> firstFree + i - 1]

\* Observation of the run: calls issued per Logger, the Logger each one was
\* created from by child() (0: by the application), the call-site metadata of
\* every entry, the entries popped / evicted / dispatched to the end, the
\* failed transport calls
EmptyHist == [calls |-> <<0>>, parent |-> <<0>>, args |-> <<>>, popped |-> {},
              evicted |-> {}, done |-> {}, failed |-> {}, adds |-> 0, clears |-> 0,
              aborted |-> <<>>, formatted |-> <<>>]

EmptyDiag == [warn |-> 0, thrown |-> 0, unhandled |-> 0, closeFailed |-> 0]

\* State after `new Logger(opts)` with the user transports `user` (attribute
\* records) passed as opts.transports, but for the transports' own fields
InitLogger(opts, user) ==
  LET o == [opts EXCEPT !.transports = [i \in 1..Len(user) |-> i]]
      created == SetupDefaultTransports(o)
  IN /\ options = <<o>>
     /\ transports = <<1>>
     /\ arrays = <<NewLoggerArray(o, Len(user) + 1)>>
     /\ tattr = user \o created
     /\ queue = << <<>> >>
     /\ isProcessingQueue = <<FALSE>>
     /\ isClosed = <<FALSE>>
     /\ proxyMeta = <<Undefined>>
     /\ entries = <<>>
     /\ active = Idle
     /\ microtasks = <<>>
     /\ awaiting = {}
     /\ timers = {}
     /\ closes = <<>>
     /\ tlog = [i \in 1..(Len(user) + Len(created)) |-> <<>>]
     /\ consoleOutput = <<>>
     /\ diag = EmptyDiag
     /\ hist = EmptyHist

InitWith(opts, user) ==
  /\ InitLogger(opts, user)
  /\ tstate = [i \in 1..Len(tattr) |-> NewTransportState(tattr[i])]

\* ------------------------------------------------------------ the Logger
\* getStackTrace: undefined (FALSE) unless includeStackTrace is set, else the
\* captured frames (TRUE)
GetStackTraceAlways(l) == TRUE

GetStackTrace(l) == IF ~options[l].includeStackTrace THEN FALSE ELSE TRUE

\* createLogEntry: the stack is captured for error/fatal
CreateLogEntry(l, level, meta) ==
  [level |-> level, meta |-> meta, l |-> l,
   stackTrace |-> IF level = "error" \/ level = "fatal" THEN GetStackTrace(l) ELSE FALSE]

EvictsWhenOver(logQueue, len) == logQueue # 0 /\ len > logQueue

\* enqueueLogEntry: `this.options.logQueue && this.queue.length >= logQueue`
EvictsOldest(logQueue, len) == logQueue # 0 /\ len >= logQueue

ProcessQueueReturnsOnlyWhenEmpty(processing, q) == Len(q) = 0

\* processQueue: `if (this.isProcessingQueue || this.queue.length === 0) return`
ProcessQueueReturns(processing, q) == processing \/ Len(q) = 0

StartsProcessingNever(processing) == FALSE

\* enqueueLogEntry: `if (!this.isProcessingQueue) { this.processQueue(); }`
StartsProcessing(processing) == ~processing

DrainStopsAtOnce(q) == FALSE

\* processQueue: `while (this.queue.length > 0)`
DrainContinues(q) == Len(q) > 0

ProcessLogNeverRejects(closed) == FALSE

\* processLog: `if (this.isClosed) { console.warn(...); return; }`
ProcessLogRejects(closed) == closed

CatchesNothing == FALSE

\* writeToTransports: try { await transport.log(entry) } catch { console.error }
CatchesTransportError == TRUE

\* debug/info/warn/error/fatal on Logger l (through its Proxy when it is a child)
Log(l, level, callMeta) ==
  /\ active = Idle
  /\ l \in Loggers
  /\ LET meta == IF proxyMeta[l].def THEN CombinedMeta(proxyMeta[l], callMeta)
                 ELSE callMeta
         e == Len(entries) + 1
         h0 == [hist EXCEPT !.calls[l] = @ + 1]
     IN IF ProcessLogRejects(isClosed[l])
          THEN /\ diag' = [diag EXCEPT !.warn = @ + 1]
               /\ hist' = h0
               /\ UNCHANGED <<queue, isProcessingQueue, entries, active>>
          ELSE /\ entries' = Append(entries, CreateLogEntry(l, level, meta))
               /\ diag' = diag
               /\ LET h == [h0 EXCEPT !.args = Append(@, callMeta)] IN
                  IF options[l].asyncLogging
                    THEN LET evict == EvictsOldest(options[l].logQueue, Len(queue[l]))
                             kept == IF evict /\ queue[l] # <<>> THEN Tail(queue[l])
                                     ELSE queue[l]
                             q == Append(kept, e)
                             h2 == IF evict /\ queue[l] # <<>>
                                     THEN [h EXCEPT !.evicted = @ \cup {Head(queue[l])}]
                                     ELSE h
                         IN IF StartsProcessing(isProcessingQueue[l])
                                 /\ ~ProcessQueueReturns(isProcessingQueue[l], q)
                              THEN /\ queue' = [queue EXCEPT ![l] = Tail(q)]
                                   /\ isProcessingQueue' = [isProcessingQueue EXCEPT ![l] = TRUE]
                                   /\ active' = WttFrame(l, Head(q), TRUE, 0)
                                   /\ hist' = [h2 EXCEPT !.popped = @ \cup {Head(q)}]
                              ELSE /\ queue' = [queue EXCEPT ![l] = q]
                                   /\ hist' = h2
                                   /\ UNCHANGED <<isProcessingQueue, active>>
                    ELSE /\ active' = WttFrame(l, e, FALSE, 0)
                         /\ hist' = [h EXCEPT !.popped = @ \cup {e}]
                         /\ UNCHANGED <<queue, isProcessingQueue>>
  /\ UNCHANGED <<options, transports, isClosed, proxyMeta, arrays, tattr,
                 microtasks, awaiting, timers, closes, tlog, consoleOutput, tstate>>

\* --------------------------------------------------------- the transports
\* `this.options.batchSize || 10`
BatchSize(attr) == IF attr.batchSize = 0 THEN 10 ELSE attr.batchSize

RequeueAtTail(batch, logQueue) == logQueue \o batch

\* sendBatch, catch block: `this.logQueue = [...batch, ...this.logQueue]`
Requeue(batch, logQueue) == batch \o logQueue

SendBatchKeepsQueue(s) ==
  IF Len(s.logQueue) = 0 THEN s
  ELSE [s EXCEPT !.requests = Append(@, s.logQueue),
                 !.inflight = @ \cup {Len(s.requests) + 1}]

\* HttpTransport.sendBatch up to its await: the queue becomes the body of a
\* POST and is emptied
SendBatch(s) ==
  IF Len(s.logQueue) = 0 THEN s
  ELSE [s EXCEPT !.requests = Append(@, s.logQueue),
                 !.inflight = @ \cup {Len(s.requests) + 1},
                 !.logQueue = <<>>]

BufferMessageWhenOver(s, attr, e) ==
  IF attr.maxBufferSize # 0 /\ Len(s.buffer) > attr.maxBufferSize
    THEN [s EXCEPT !.buffer = Append(Tail(@), e), !.dropped = @ \cup {Head(s.buffer)}]
    ELSE [s EXCEPT !.buffer = Append(@, e)]

\* WebSocketTransport.bufferMessage: the oldest message leaves a full buffer
BufferMessage(s, attr, e) ==
  IF attr.maxBufferSize # 0 /\ Len(s.buffer) >= attr.maxBufferSize
    THEN [s EXCEPT !.buffer = Append(Tail(@), e), !.dropped = @ \cup {Head(s.buffer)}]
    ELSE [s EXCEPT !.buffer = Append(@, e)]

\* WebSocketTransport: what is done with a message that cannot be sent
BufferOrDrop(s, attr, e) ==
  IF attr.bufferWhenDisconnected THEN BufferMessage(s, attr, e)
  ELSE [s EXCEPT !.dropped = @ \cup {e}]

\* WebSocketTransport.sendLogEntry; socket.send may throw
SendLogEntry(s, attr, e, sendThrows) ==
  IF ~s.open THEN BufferOrDrop(s, attr, e)
  ELSE IF sendThrows THEN BufferOrDrop([s EXCEPT !.throws = @ + 1], attr, e)
  ELSE [s EXCEPT !.sent = Append(@, e)]

RECURSIVE SendBufferedFrom(_, _, _, _)
\* sendBufferedMessages, the `for (const entry of this.buffer)` loop from
\* position i on: the iterator reads the live array, to which sendLogEntry
\* pushes (and from which it shifts) an entry whose send throws; then
\* `this.buffer = []`. `bad` are the entries for which the send throws.
SendBufferedFrom(s, attr, bad, i) ==
  IF i > Len(s.buffer) THEN [s EXCEPT !.buffer = <<>>]
  ELSE SendBufferedFrom(SendLogEntry(s, attr, s.buffer[i], s.buffer[i] \in bad),
                        attr, bad, i + 1)

SendBufferedKeepsBuffer(s, attr, bad) ==
  IF Len(s.buffer) = 0 THEN s
  ELSE [SendBufferedFrom(s, attr, bad, 1) EXCEPT
          !.buffer = s.buffer, !.flushed = Append(@, s.buffer)]

\* sendBufferedMessages; flushed keeps the buffers it was called with
SendBufferedMessages(s, attr, bad) ==
  IF Len(s.buffer) = 0 THEN s
  ELSE [SendBufferedFrom(s, attr, bad, 1) EXCEPT !.flushed = Append(@, s.buffer)]

\* the loop of sendBufferedMessages comes to an end: a buffer without a cap
\* grows by one for every step over an entry whose send throws
FlushEnds(attr, bad) ==
  ~(attr.bufferWhenDisconnected /\ attr.maxBufferSize = 0 /\ bad # {})

\* handleOpen
HandleOpen(s, attr, bad) ==
  SendBufferedMessages([s EXCEPT !.reconnectAttempts = 0], attr, bad)

\* log(entry) of the transport classes, on the transport's own fields: every
\* one starts with `if (!this.shouldLog(entry.level)) return`
TransportLog(attr, s, e, level, sendThrows) ==
  IF ~ShouldLog(attr.minLevel, level) THEN s
  ELSE CASE attr.kind = "file" -> FileLog(s, e)
         [] attr.kind = "http" ->
              IF attr.batchLogs
                THEN LET q == [s EXCEPT !.logQueue = Append(@, e)]
                     IN IF Len(q.logQueue) >= BatchSize(attr) THEN SendBatch(q) ELSE q
                ELSE [s EXCEPT !.requests = Append(@, <<e>>),
                               !.sends = Append(@, [e |-> e, attempt |-> 0,
                                                    phase |-> "fetch"])]
         [] attr.kind = "ws" ->
              IF ~s.open THEN BufferOrDrop(s, attr, e)
              ELSE SendLogEntry(s, attr, e, sendThrows)
         [] OTHER -> s

\* What a call of transport.log can do, seen from the Logger. The log of
\* ConsoleTransport, FileTransport and WebSocketTransport returns undefined;
\* HttpTransport.log returns undefined for a rejected entry and in batch
\* mode, else the promise of sendLog, which is pending while the request
\* and its retries last and never rejects. A user-supplied Transport may
\* return undefined, throw, or return a promise that settles later.
LogOutcomes(attr, level) ==
  CASE attr.kind = "user" -> {"void", "throw", "pending"}
    [] attr.kind = "http" ->
         IF ShouldLog(attr.minLevel, level) /\ ~attr.batchLogs
           THEN {"pending"} ELSE {"void"}
    [] OTHER -> {"void"}

\* What a call of transport.close can do, seen from the Logger
Outcomes(kind) == IF kind = "user" THEN {"void", "throw", "pending"} ELSE {"void"}

\* The fetch of batch request r of HttpTransport t settles: a failed batch
\* goes back to the head of the queue, and the batch timeout is re-armed. A
\* close() that awaits this sendBatch resumes next: it clears the timeout
\* and resolves.
HttpBatchSettle(t, r, ok) ==
  /\ active = Idle
  /\ t \in 1..Len(tstate)
  /\ r \in tstate[t].inflight
  /\ tstate' = [tstate EXCEPT ![t] =
       [@ EXCEPT !.inflight = @ \ {r},
                 !.logQueue = IF ok THEN @ ELSE Requeue(tstate[t].requests[r], @),
                 !.batchFailed = IF ok THEN @ ELSE @ \cup {r},
                 !.timer = (r \notin tstate[t].closing),
                 !.closing = @ \ {r},
                 !.closeResolved = @ \/ (r \in tstate[t].closing)]]
  /\ UNCHANGED <<loggerVars, arrays, tattr, entries, active, microtasks, awaiting,
                 timers, closes, tlog, consoleOutput, diag, hist>>

\* The batch timeout of HttpTransport t fires: sendBatch()
HttpTimerFire(t) ==
  /\ active = Idle
  /\ microtasks = <<>>
  /\ t \in 1..Len(tstate)
  /\ tstate[t].timer
  /\ tstate' = [tstate EXCEPT ![t] = SendBatch([@ EXCEPT !.timer = FALSE])]
  /\ UNCHANGED <<loggerVars, arrays, tattr, entries, active, microtasks, awaiting,
                 timers, closes, tlog, consoleOutput, diag, hist>>

RetriesOnceMore(retryAttempt, retryCount) == retryAttempt <= retryCount

\* sendLog, catch block: `if (retryAttempt < (this.options.retryCount || 0))`
Retries(retryAttempt, retryCount) == retryAttempt < retryCount

\* sendLog: the POST of send i of HttpTransport t settles (not ok: a non-2xx
\* status or a rejected fetch). A failure is retried after retryDelay or,
\* the retries used up, swallowed: sendLog returns either way.
HttpFetchSettle(t, i, ok) ==
  /\ active = Idle
  /\ t \in 1..Len(tstate)
  /\ i \in 1..Len(tstate[t].sends)
  /\ tstate[t].sends[i].phase = "fetch"
  /\ tstate' = [tstate EXCEPT ![t].sends[i].phase =
       IF ok THEN "sent"
       ELSE IF Retries(tstate[t].sends[i].attempt, tattr[t].retryCount) THEN "delay"
       ELSE "gaveup"]
  /\ UNCHANGED <<loggerVars, arrays, tattr, entries, active, microtasks, awaiting,
                 timers, closes, tlog, consoleOutput, diag, hist>>

\* sendLog: retryDelay is over, `return this.sendLog(entry, retryAttempt + 1)`
HttpRetry(t, i) ==
  /\ active = Idle
  /\ microtasks = <<>>
  /\ t \in 1..Len(tstate)
  /\ i \in 1..Len(tstate[t].sends)
  /\ tstate[t].sends[i].phase = "delay"
  /\ tstate' = [tstate EXCEPT ![t] =
       [@ EXCEPT !.requests = Append(@, <<tstate[t].sends[i].e>>),
                 !.sends[i].attempt = @ + 1,
                 !.sends[i].phase = "fetch"]]
  /\ UNCHANGED <<loggerVars, arrays, tattr, entries, active, microtasks, awaiting,
                 timers, closes, tlog, consoleOutput, diag, hist>>

\* HttpTransport.close(): in batch mode with entries queued it awaits
\* sendBatch(); otherwise it clears the batch timeout and resolves
HttpClose(t) ==
  /\ active = Idle
  /\ t \in 1..Len(tstate)
  /\ tattr[t].kind = "http"
  /\ tlog' = [tlog EXCEPT ![t] = Append(@, <<"close", 0>>)]
  /\ tstate' = [tstate EXCEPT ![t] =
       IF tattr[t].batchLogs /\ Len(@.logQueue) > 0
         THEN [SendBatch(@) EXCEPT !.closing = @ \cup {Len(tstate[t].requests) + 1},
                                   !.closed = TRUE]
         ELSE [@ EXCEPT !.timer = FALSE, !.closed = TRUE, !.closeResolved = TRUE]]
  /\ UNCHANGED <<loggerVars, arrays, tattr, entries, active, microtasks, awaiting,
                 timers, closes, consoleOutput, diag, hist>>

\* fs.WriteStream k of FileTransport t opens its file: flags 'a' and 'w' both
\* create it where it does not exist, 'w' truncates it where it does. The
\* open requests are served in the order in which the streams were made.
FileStreamOpen(t, k) ==
  /\ active = Idle
  /\ t \in 1..Len(tstate)
  /\ k \in 1..Len(tstate[t].streams)
  /\ tstate[t].streams[k].fd = 0
  /\ \A j \in 1..(k - 1) : tstate[t].streams[j].fd # 0
  /\ LET s == tstate[t]
         live == s.disk[0]
     IN tstate' = [tstate EXCEPT ![t] =
          IF live = 0
            THEN [s EXCEPT !.files = Append(@, <<>>),
                           !.disk[0] = Len(s.files) + 1,
                           !.streams[k].fd = Len(s.files) + 1]
            ELSE [s EXCEPT !.files[live] = IF tattr[t].mode = "w" THEN <<>> ELSE @,
                           !.streams[k].fd = live]]
  /\ UNCHANGED <<loggerVars, arrays, tattr, entries, active, microtasks, awaiting,
                 timers, closes, tlog, consoleOutput, diag, hist>>

\* The oldest chunk of stream k reaches the file the stream has open, and
\* the callback FileTransport.log gave to write() runs without an error
FileWriteDone(t, k) ==
  /\ active = Idle
  /\ t \in 1..Len(tstate)
  /\ k \in 1..Len(tstate[t].streams)
  /\ tstate[t].streams[k].fd # 0
  /\ tstate[t].streams[k].pending # <<>>
  /\ LET s == tstate[t]
         e == Head(s.streams[k].pending)
         written == [s EXCEPT !.files[s.streams[k].fd] = Append(@, e),
                              !.streams[k].pending = Tail(@),
                              !.currentSize = @ + ByteLength(e)]
     IN tstate' = [tstate EXCEPT ![t] =
          IF tattr[t].maxSize # 0 /\ written.currentSize >= tattr[t].maxSize
            THEN RotateFile(written, tattr[t], "size")
            ELSE written]
  /\ UNCHANGED <<loggerVars, arrays, tattr, entries, active, microtasks, awaiting,
                 timers, closes, tlog, consoleOutput, diag, hist>>

\* The rotation-check interval fires in a new calendar bucket:
\* checkTimeRotation calls rotateFile
FileTimeRotation(t) ==
  /\ active = Idle
  /\ microtasks = <<>>
  /\ t \in 1..Len(tstate)
  /\ tstate[t].interval
  /\ tstate' = [tstate EXCEPT ![t] = RotateFile(@, tattr[t], "time")]
  /\ UNCHANGED <<loggerVars, arrays, tattr, entries, active, microtasks, awaiting,
                 timers, closes, tlog, consoleOutput, diag, hist>>

\* FileTransport.close(): clear the interval, end the stream and forget it
FileClose(t) ==
  /\ active = Idle
  /\ t \in 1..Len(tstate)
  /\ tattr[t].kind = "file"
  /\ tlog' = [tlog EXCEPT ![t] = Append(@, <<"close", 0>>)]
  /\ tstate' = [tstate EXCEPT ![t] =
       LET ended == IF @.writeStream # 0
                      THEN [@ EXCEPT !.streams[@.writeStream].ended = TRUE]
                      ELSE @
       IN [ended EXCEPT !.interval = FALSE, !.writeStream = 0,
                        !.closed = TRUE, !.closeResolved = TRUE]]
  /\ UNCHANGED <<loggerVars, arrays, tattr, entries, active, microtasks, awaiting,
                 timers, closes, consoleOutput, diag, hist>>

\* Socket k of WebSocketTransport t opens: onopen is handleOpen; socket.send
\* throws for the entries in `bad`
WsSocketOpen(t, k, bad) ==
  /\ active = Idle
  /\ t \in 1..Len(tstate)
  /\ k \in 1..Len(tstate[t].sockets)
  /\ tstate[t].sockets[k] = "CONNECTING"
  /\ FlushEnds(tattr[t], bad)
  /\ tstate' = [tstate EXCEPT ![t] =
       HandleOpen([@ EXCEPT !.sockets[k] = "OPEN", !.open = (k = tstate[t].socket)],
                  tattr[t], bad)]
  /\ UNCHANGED <<loggerVars, arrays, tattr, entries, active, microtasks, awaiting,
                 timers, closes, tlog, consoleOutput, diag, hist>>

\* The closing handshake of socket k starts at the other end: readyState is
\* CLOSING until the close event
WsSocketClosing(t, k) ==
  /\ active = Idle
  /\ t \in 1..Len(tstate)
  /\ k \in 1..Len(tstate[t].sockets)
  /\ tstate[t].sockets[k] = "OPEN"
  /\ tstate' = [tstate EXCEPT ![t] =
       [@ EXCEPT !.sockets[k] = "CLOSING",
                 !.open = IF k = tstate[t].socket THEN FALSE ELSE @]]
  /\ UNCHANGED <<loggerVars, arrays, tattr, entries, active, microtasks, awaiting,
                 timers, closes, tlog, consoleOutput, diag, hist>>

\* Socket k is closed (the connection failed, was lost or was closed by
\* either end): onclose is handleClose; onerror only logs
WsSocketClose(t, k) ==
  /\ active = Idle
  /\ t \in 1..Len(tstate)
  /\ k \in 1..Len(tstate[t].sockets)
  /\ tstate[t].sockets[k] # "CLOSED"
  /\ tstate' = [tstate EXCEPT ![t] =
       HandleClose([@ EXCEPT !.sockets[k] = "CLOSED",
                             !.open = IF k = tstate[t].socket THEN FALSE ELSE @],
                   tattr[t])]
  /\ UNCHANGED <<loggerVars, arrays, tattr, entries, active, microtasks, awaiting,
                 timers, closes, tlog, consoleOutput, diag, hist>>

\* The reconnect timeout fires: connect()
WsReconnectFire(t) ==
  /\ active = Idle
  /\ microtasks = <<>>
  /\ t \in 1..Len(tstate)
  /\ tstate[t].reconnectTimer
  /\ tstate' = [tstate EXCEPT ![t] = Connect([@ EXCEPT !.reconnectTimer = FALSE], tattr[t])]
  /\ UNCHANGED <<loggerVars, arrays, tattr, entries, active, microtasks, awaiting,
                 timers, closes, tlog, consoleOutput, diag, hist>>

\* WebSocketTransport.close()
WsClose(t) ==
  /\ active = Idle
  /\ t \in 1..Len(tstate)
  /\ tattr[t].kind = "ws"
  /\ tlog' = [tlog EXCEPT ![t] = Append(@, <<"close", 0>>)]
  /\ tstate' = [tstate EXCEPT ![t] =
       [CloseSocket([@ EXCEPT !.reconnectTimer = FALSE]) EXCEPT
          !.closed = TRUE, !.closeResolved = TRUE]]
  /\ UNCHANGED <<loggerVars, arrays, tattr, entries, active, microtasks, awaiting,
                 timers, closes, consoleOutput, diag, hist>>

\* The application runs `new X(options)`, where the log file exists or not.
\* A constructor that throws leaves no transport; hist.aborted keeps what it
\* had done by then.
ConstructTransport(attr, exists) ==
  /\ active = Idle
  /\ LET r == Constructor(attr, exists, <<0>>)
     IN IF r.threw
          THEN /\ hist' = [hist EXCEPT !.aborted = Append(@, [attr |-> attr, s |-> r.s])]
               /\ UNCHANGED <<tattr, tstate, tlog>>
          ELSE /\ tattr' = Append(tattr, attr)
               /\ tstate' = Append(tstate, r.s)
               /\ tlog' = Append(tlog, <<>>)
               /\ hist' = hist
  /\ UNCHANGED <<loggerVars, arrays, entries, active, microtasks, awaiting, timers,
                 closes, consoleOutput, diag>>

\* The application (or a test) calls transport.log(entry) itself, with an
\* entry of its own making
TransportLogCall(t, level, sendThrows) ==
  /\ active = Idle
  /\ t \in TransportIds
  /\ tattr[t].kind \in {"file", "http", "ws"}
  /\ entries' = Append(entries, [level |-> level, meta |-> Undefined, l |-> 0,
                                 stackTrace |-> level \in {"error", "fatal"}])
  /\ hist' = [hist EXCEPT !.args = Append(@, Undefined)]
  /\ tlog' = [tlog EXCEPT ![t] = Append(@, <<"log", Len(entries) + 1>>)]
  /\ tstate' = [tstate EXCEPT ![t] =
       TransportLog(tattr[t], @, Len(entries) + 1, level, sendThrows)]
  /\ UNCHANGED <<loggerVars, arrays, tattr, active, microtasks, awaiting, timers,
                 closes, consoleOutput, diag>>

\* The writeToTransports promise rejects (only when the catch is missing):
\* processQueue's finally clears the flag and the rejection is unhandled.
WttAbort(f) ==
  /\ active' = Idle
  /\ diag' = [diag EXCEPT !.unhandled = @ + 1]
  /\ isProcessingQueue' =
       IF f.drain THEN [isProcessingQueue EXCEPT ![f.l] = FALSE] ELSE isProcessingQueue

\* writeToTransports, one iteration: `await transport.log(entry)` in try/catch
WttCall(outcome) ==
  /\ active.k = "wtt"
  /\ active.idx <= Len(arrays[active.arr])
  /\ LET t == arrays[active.arr][active.idx]
         e == active.e
     IN /\ outcome \in LogOutcomes(tattr[t], entries[e].level)
        /\ tlog' = [tlog EXCEPT ![t] = Append(@, <<"log", e>>)]
        /\ consoleOutput' =
             IF tattr[t].kind = "console" /\ ShouldLog(tattr[t].minLevel, entries[e].level)
               THEN Append(consoleOutput, <<t, e>>) ELSE consoleOutput
        /\ \E sendThrows \in BOOLEAN :
             tstate' = [tstate EXCEPT ![t] =
                          TransportLog(tattr[t], @, e, entries[e].level, sendThrows)]
        /\ CASE outcome = "void" ->
                  /\ microtasks' = Append(microtasks, [active EXCEPT !.idx = @ + 1])
                  /\ active' = Idle
                  /\ UNCHANGED <<awaiting, diag, hist, isProcessingQueue>>
             [] outcome = "pending" ->
                  /\ awaiting' = awaiting \cup {active}
                  /\ active' = Idle
                  /\ UNCHANGED <<microtasks, diag, hist, isProcessingQueue>>
             [] outcome = "throw" ->
                  /\ hist' = [hist EXCEPT !.failed = @ \cup {<<e, t>>}]
                  /\ UNCHANGED <<microtasks, awaiting>>
                  /\ IF CatchesTransportError
                       THEN /\ active' = [active EXCEPT !.idx = @ + 1]
                            /\ UNCHANGED <<diag, isProcessingQueue>>
                       ELSE WttAbort(active)
  /\ UNCHANGED <<options, transports, queue, isClosed, proxyMeta, arrays, tattr,
                 entries, timers, closes>>

\* writeToTransports returns: its promise resolves and the processQueue that
\* awaits it becomes ready
WttDone ==
  /\ active.k = "wtt"
  /\ active.idx > Len(arrays[active.arr])
  /\ hist' = [hist EXCEPT !.done = @ \cup {<<active.e, active.arr>>}]
  /\ microtasks' =
       IF active.drain
         THEN Append(microtasks, Frame("drain", active.l, 0, 0, 0, FALSE, active.cw, FALSE))
         ELSE microtasks
  /\ active' = Idle
  /\ UNCHANGED <<loggerVars, arrays, tattr, entries, awaiting, timers, closes, tlog,
                 consoleOutput, tstate, diag>>

\* A pending promise returned by transport.log / transport.close settles; only
\* the promise of a user-supplied transport can reject
Settle(w, ok) ==
  /\ active = Idle
  /\ w \in awaiting
  /\ ok \/ tattr[arrays[w.arr][w.idx]].kind = "user"
  /\ awaiting' = awaiting \ {w}
  /\ microtasks' = Append(microtasks, [w EXCEPT !.idx = @ + 1, !.rej = ~ok])
  /\ UNCHANGED <<loggerVars, arrays, tattr, entries, active, timers, closes, tlog,
                 consoleOutput, tstate, diag, hist>>

\* writeToTransports resumes after its await (in the catch block on rejection)
ResumeWrite ==
  /\ active = Idle
  /\ microtasks # <<>>
  /\ Head(microtasks).k = "wtt"
  /\ LET f == Head(microtasks)
     IN /\ microtasks' = Tail(microtasks)
        /\ IF f.rej
             THEN /\ hist' = [hist EXCEPT !.failed = @ \cup {<<f.e, arrays[f.arr][f.idx - 1]>>}]
                  /\ IF CatchesTransportError
                       THEN /\ active' = [f EXCEPT !.rej = FALSE]
                            /\ UNCHANGED <<diag, isProcessingQueue>>
                       ELSE WttAbort(f)
             ELSE /\ active' = f
                  /\ UNCHANGED <<hist, diag, isProcessingQueue>>
  /\ UNCHANGED <<options, transports, queue, isClosed, proxyMeta, arrays, tattr,
                 entries, awaiting, timers, closes, tlog, consoleOutput, tstate>>

\* processQueue resumes after `await this.writeToTransports(entry)`: next
\* entry, or the finally block and the resolution of its promise
ResumeDrain ==
  /\ active = Idle
  /\ microtasks # <<>>
  /\ Head(microtasks).k = "drain"
  /\ LET f == Head(microtasks)
         l == f.l
     IN IF DrainContinues(queue[l])
          THEN /\ queue' = [queue EXCEPT ![l] = Tail(@)]
               /\ active' = WttFrame(l, Head(queue[l]), TRUE, f.cw)
               /\ hist' = [hist EXCEPT !.popped = @ \cup {Head(queue[l])}]
               /\ microtasks' = Tail(microtasks)
               /\ UNCHANGED isProcessingQueue
          ELSE /\ isProcessingQueue' = [isProcessingQueue EXCEPT ![l] = FALSE]
               /\ microtasks' =
                    IF f.cw # 0
                      THEN Append(Tail(microtasks), Frame("prl", l, 0, 0, 0, FALSE, f.cw, FALSE))
                      ELSE Tail(microtasks)
               /\ UNCHANGED <<queue, active, hist>>
  /\ UNCHANGED <<options, transports, isClosed, proxyMeta, arrays, tattr, entries,
                 awaiting, timers, closes, tlog, consoleOutput, tstate, diag>>

\* processRemainingLogs resumes after `await this.processQueue()`:
\* setTimeout(processRemainingLogs, 100)
ResumePoll ==
  /\ active = Idle
  /\ microtasks # <<>>
  /\ Head(microtasks).k = "prl"
  /\ timers' = timers \cup {Head(microtasks).cw}
  /\ microtasks' = Tail(microtasks)
  /\ UNCHANGED <<loggerVars, arrays, tattr, entries, active, awaiting, closes, tlog,
                 consoleOutput, tstate, diag, hist>>

\* The body of processRemainingLogs for close call c of Logger l
ProcessRemainingLogs(c, l) ==
  IF Len(queue[l]) > 0
    THEN IF ProcessQueueReturns(isProcessingQueue[l], queue[l])
           THEN /\ microtasks' = Append(microtasks, Frame("prl", l, 0, 0, 0, FALSE, c, FALSE))
                /\ UNCHANGED <<queue, isProcessingQueue, active, hist>>
           ELSE /\ queue' = [queue EXCEPT ![l] = Tail(@)]
                /\ isProcessingQueue' = [isProcessingQueue EXCEPT ![l] = TRUE]
                /\ active' = WttFrame(l, Head(queue[l]), TRUE, c)
                /\ hist' = [hist EXCEPT !.popped = @ \cup {Head(queue[l])}]
                /\ UNCHANGED microtasks
    ELSE /\ active' = Frame("closeT", l, 0, transports[l], 1, FALSE, c, FALSE)
         /\ UNCHANGED <<queue, isProcessingQueue, microtasks, hist>>

\* Logger.close()
Close(l) ==
  /\ active = Idle
  /\ l \in Loggers
  /\ isClosed' = [isClosed EXCEPT ![l] = TRUE]
  /\ closes' = Append(closes, [l |-> l, resolved |-> FALSE])
  /\ ProcessRemainingLogs(Len(closes) + 1, l)
  /\ UNCHANGED <<options, transports, proxyMeta, arrays, tattr, entries, awaiting,
                 timers, tlog, consoleOutput, tstate, diag>>

\* The 100 ms timer of close call c fires (a macrotask: no microtask is left)
TimerFire(c) ==
  /\ active = Idle
  /\ microtasks = <<>>
  /\ c \in timers
  /\ timers' = timers \ {c}
  /\ ProcessRemainingLogs(c, closes[c].l)
  /\ UNCHANGED <<options, transports, isClosed, proxyMeta, arrays, tattr, entries,
                 awaiting, closes, tlog, consoleOutput, tstate, diag>>

\* close(), closing loop: `if (typeof transport.close === 'function')
\* await transport.close()`; an exception or rejection ends the async
\* function without resolve()
CloseCall(outcome) ==
  /\ active.k = "closeT"
  /\ active.idx <= Len(arrays[active.arr])
  /\ LET t == arrays[active.arr][active.idx]
     IN IF ~tattr[t].hasClose
          THEN /\ outcome = "void"
               /\ active' = [active EXCEPT !.idx = @ + 1]
               /\ UNCHANGED <<tlog, microtasks, awaiting, diag>>
          ELSE /\ outcome \in Outcomes(tattr[t].kind)
               /\ tlog' = [tlog EXCEPT ![t] = Append(@, <<"close", active.cw>>)]
               /\ active' = Idle
               /\ CASE outcome = "void" ->
                         /\ microtasks' = Append(microtasks, [active EXCEPT !.idx = @ + 1])
                         /\ UNCHANGED <<awaiting, diag>>
                    [] outcome = "pending" ->
                         /\ awaiting' = awaiting \cup {active}
                         /\ UNCHANGED <<microtasks, diag>>
                    [] outcome = "throw" ->
                         /\ diag' = [diag EXCEPT !.closeFailed = @ + 1]
                         /\ UNCHANGED <<microtasks, awaiting>>
  /\ UNCHANGED <<loggerVars, arrays, tattr, entries, timers, closes, consoleOutput, tstate, hist>>

\* close(), after the loop: resolve()
CloseResolve ==
  /\ active.k = "closeT"
  /\ active.idx > Len(arrays[active.arr])
  /\ closes' = [closes EXCEPT ![active.cw].resolved = TRUE]
  /\ active' = Idle
  /\ UNCHANGED <<loggerVars, arrays, tattr, entries, microtasks, awaiting, timers,
                 tlog, consoleOutput, tstate, diag, hist>>

\* processRemainingLogs resumes after `await transport.close()`
ResumeClose ==
  /\ active = Idle
  /\ microtasks # <<>>
  /\ Head(microtasks).k = "closeT"
  /\ microtasks' = Tail(microtasks)
  /\ IF Head(microtasks).rej
       THEN /\ diag' = [diag EXCEPT !.closeFailed = @ + 1]
            /\ UNCHANGED active
       ELSE /\ active' = Head(microtasks)
            /\ UNCHANGED diag
  /\ UNCHANGED <<loggerVars, arrays, tattr, entries, awaiting, timers, closes, tlog,
                 consoleOutput, tstate, hist>>

\* addTransport(transport): this.transports.push(transport)
AddTransport(l, attr) ==
  /\ active = Idle
  /\ l \in Loggers
  /\ tattr' = Append(tattr, attr)
  /\ tlog' = Append(tlog, <<>>)
  /\ tstate' = Append(tstate, NewTransportState(attr))
  /\ arrays' = [arrays EXCEPT ![transports[l]] = Append(@, Len(tattr) + 1)]
  /\ hist' = [hist EXCEPT !.adds = @ + 1]
  /\ UNCHANGED <<loggerVars, entries, active, microtasks, awaiting, timers, closes,
                 consoleOutput, diag>>

\* clearTransports(): start of the synchronous loop over this.transports
ClearTransports(l) ==
  /\ active = Idle
  /\ l \in Loggers
  /\ active' = Frame("clear", l, 0, transports[l], 1, FALSE, 0, FALSE)
  /\ hist' = [hist EXCEPT !.clears = @ + 1]
  /\ UNCHANGED <<loggerVars, arrays, tattr, entries, microtasks, awaiting, timers,
                 closes, tlog, consoleOutput, tstate, diag>>

\* clearTransports(), one iteration: transport.close() is called and not
\* awaited; an exception leaves the loop and reaches the caller
ClearCall(outcome) ==
  /\ active.k = "clear"
  /\ active.idx <= Len(arrays[active.arr])
  /\ outcome \in {"void", "throw"}
  /\ LET t == arrays[active.arr][active.idx]
     IN IF ~tattr[t].hasClose
          THEN /\ outcome = "void"
               /\ active' = [active EXCEPT !.idx = @ + 1]
               /\ UNCHANGED <<tlog, diag>>
          ELSE /\ outcome \in Outcomes(tattr[t].kind)
               /\ tlog' = [tlog EXCEPT ![t] = Append(@, <<"close", 0>>)]
               /\ IF outcome = "throw"
                    THEN /\ active' = Idle
                         /\ diag' = [diag EXCEPT !.thrown = @ + 1]
                    ELSE /\ active' = [active EXCEPT !.idx = @ + 1]
                         /\ UNCHANGED diag
  /\ UNCHANGED <<loggerVars, arrays, tattr, entries, microtasks, awaiting, timers,
                 closes, consoleOutput, tstate, hist>>

\* clearTransports(), after the loop: this.transports = []
ClearDone ==
  /\ active.k = "clear"
  /\ active.idx > Len(arrays[active.arr])
  /\ arrays' = Append(arrays, <<>>)
  /\ transports' = [transports EXCEPT ![active.l] = Len(arrays) + 1]
  /\ active' = Idle
  /\ UNCHANGED <<options, queue, isProcessingQueue, isClosed, proxyMeta, tattr,
                 entries, microtasks, awaiting, timers, closes, tlog, consoleOutput, tstate,
                 diag, hist>>

\* child({ meta }): a new Logger built from this Logger's options (it shares
\* the transport instances of options.transports and creates default
\* transports of its own), wrapped in a Proxy that holds `options.meta || {}`
Child(l, meta) ==
  /\ active = Idle
  /\ l \in Loggers
  /\ LET opts == options[l]
         created == SetupDefaultTransports(opts)
     IN /\ options' = Append(options, opts)
        /\ arrays' = Append(arrays, NewLoggerArray(opts, Len(tattr) + 1))
        /\ transports' = Append(transports, Len(arrays) + 1)
        /\ tattr' = tattr \o created
        /\ tlog' = tlog \o [i \in 1..Len(created) |-> <<>>]
        /\ tstate' = tstate \o [i \in 1..Len(created) |-> NewTransportState(created[i])]
  /\ queue' = Append(queue, <<>>)
  /\ isProcessingQueue' = Append(isProcessingQueue, FALSE)
  /\ isClosed' = Append(isClosed, FALSE)
  /\ proxyMeta' = Append(proxyMeta, IF meta.def THEN meta ELSE Obj({}))
  /\ hist' = [hist EXCEPT !.calls = Append(@, 0), !.parent = Append(@, l)]
  /\ UNCHANGED <<entries, active, microtasks, awaiting, timers, closes, consoleOutput,
                 diag>>

\* ------------------------------------------------- the delivery core, Spec
\* Number of logging calls issued so far, on all Loggers
Calls == Len(entries) + diag.warn

CoreLevels == {"info"}

\* options.transports of the Logger under study: user-supplied transports
\* with and without a close operation
UserTransportLists ==
  {<<UserAttr("unset", TRUE)>>,
   <<UserAttr("unset", FALSE), UserAttr("unset", TRUE)>>}

\* logQueue 0 is falsy in the size check of enqueueLogEntry: no cap
QueueCapacities == {0, 1}

CoreOptions ==
  {[DefaultOptions EXCEPT !.console = "off"]}
  \cup
  {[DefaultOptions EXCEPT !.asyncLogging = TRUE, !.logQueue = cap, !.console = "off"] :
     cap \in QueueCapacities}

Init == \E opts \in CoreOptions, user \in UserTransportLists : InitWith(opts, user)

CallBudget == IF options[1].asyncLogging THEN MaxCalls ELSE MaxSyncCalls

CloseBudget == IF options[1].asyncLogging THEN MaxCloseCalls ELSE MaxSyncCloses

Next ==
  \/ \E lv \in CoreLevels : Calls < CallBudget /\ Log(1, lv, Undefined)
  \/ \E o \in {"void", "throw", "pending"} : WttCall(o)
  \/ WttDone
  \/ \E w \in awaiting, ok \in BOOLEAN : Settle(w, ok)
  \/ ResumeWrite
  \/ ResumeDrain
  \/ ResumePoll
  \/ Len(closes) < CloseBudget /\ Close(1)
  \/ \E c \in timers : TimerFire(c)
  \/ \E o \in {"void", "throw"} : CloseCall(o)
  \/ CloseResolve
  \/ ResumeClose

Spec == Init /\ [][Next]_vars

\* --------------------------------------------- the bounded queue, SpecQueue
\* An asynchronous Logger with one transport and a small capacity, logged to
\* more often than the queue can hold.
SmallCapacities == {1, 2, 3}

QueueOptions ==
  {[DefaultOptions EXCEPT !.asyncLogging = TRUE, !.logQueue = cap, !.console = "off"] :
     cap \in SmallCapacities}

InitQueue == \E opts \in QueueOptions : InitWith(opts, <<UserAttr("unset", FALSE)>>)

NextQueue ==
  \/ \E lv \in CoreLevels : Calls < MaxQueueCalls /\ Log(1, lv, Undefined)
  \/ \E o \in {"void", "throw", "pending"} : WttCall(o)
  \/ WttDone
  \/ \E w \in awaiting, ok \in BOOLEAN : Settle(w, ok)
  \/ ResumeWrite
  \/ ResumeDrain

SpecQueue == InitQueue /\ [][NextQueue]_vars

\* An asynchronous Logger with two transports whose drain is followed to its
\* end. The event loop runs the synchronous code to completion and then the
\* ready continuations, and every promise a transport returned settles.
InitDrain ==
  \E opts \in QueueOptions :
    InitWith(opts, <<UserAttr("unset", FALSE), UserAttr("unset", FALSE)>>)

NextDrain ==
  \/ Calls < MaxDrainCalls /\ Log(1, "info", Undefined)
  \/ \E o \in {"void", "throw", "pending"} : WttCall(o)
  \/ WttDone
  \/ \E w \in awaiting, ok \in BOOLEAN : Settle(w, ok)
  \/ ResumeWrite
  \/ ResumeDrain

SpecDrain ==
  /\ InitDrain /\ [][NextDrain]_vars
  /\ WF_vars(\E o \in {"void", "throw", "pending"} : WttCall(o))
  /\ WF_vars(WttDone)
  /\ WF_vars(\E w \in awaiting, ok \in BOOLEAN : Settle(w, ok))
  /\ WF_vars(ResumeWrite)
  /\ WF_vars(ResumeDrain)

\* ------------------------------------------------ child loggers, SpecChild
\* The metadata fixed at child() and the metadata passed at the call site
ChildMetas == {Undefined, Obj({<<"a", "x">>}), Obj({<<"b", "x">>})}

CallMetas == {Undefined, Obj({<<"b", "y">>}), Obj({<<"a", "y">>, <<"b", "y">>})}

InitChild == InitWith(DefaultOptions, <<>>)

NextChild ==
  \/ \E l \in Loggers, m \in ChildMetas : Len(isClosed) < MaxLoggers /\ Child(l, m)
  \/ \E l \in Loggers, m \in CallMetas : Calls < MaxChildCalls /\ Log(l, "info", m)
  \/ WttCall("void")
  \/ ResumeWrite
  \/ WttDone

SpecChild == InitChild /\ [][NextChild]_vars

\* A Logger made with or without a transport of the application's in
\* options.transports, synchronous or asynchronous, its child loggers, and
\* close() on any of them
InitFamily ==
  \E async \in BOOLEAN, user \in {<<>>, <<UserAttr("unset", TRUE)>>} :
    InitWith([DefaultOptions EXCEPT !.asyncLogging = async], user)

NextFamily ==
  \/ \E l \in Loggers : Len(isClosed) < MaxFamily /\ Child(l, Undefined)
  \/ \E l \in Loggers : Calls < MaxFamilyCalls /\ Log(l, "info", Undefined)
  \/ WttCall("void")
  \/ WttDone
  \/ ResumeWrite
  \/ ResumeDrain
  \/ ResumePoll
  \/ \E l \in Loggers : ~isClosed[l] /\ Close(l)
  \/ \E c \in timers : TimerFire(c)
  \/ CloseCall("void")
  \/ CloseResolve
  \/ ResumeClose

SpecFamily == InitFamily /\ [][NextFamily]_vars

\* ------------------------------------------------ level gating, SpecLevel
\* A Logger with a configured level, its default console transport (console:
\* true, an object without minLevel, or an object with minLevel "error"), with
\* or without the default file transport, with or without a FileTransport of
\* minLevel "debug" passed in options.transports
LevelOptions ==
  {[DefaultOptions EXCEPT !.level = lv, !.console = con, !.file = f, !.asyncLogging = a,
                          !.includeStackTrace = st] :
     lv \in LevelSet, con \in {"on", "obj", "error"}, f \in {"off", "on"},
     a \in BOOLEAN, st \in BOOLEAN}

LevelUserLists == {<<>>, <<FileAttr("debug")>>}

InitLevel == \E opts \in LevelOptions, user \in LevelUserLists : InitWith(opts, user)

NextLevel ==
  \/ \E lv \in LevelSet : Calls < MaxLevelCalls /\ Log(1, lv, Undefined)
  \/ WttCall("void")
  \/ ResumeWrite
  \/ WttDone
  \/ ResumeDrain

SpecLevel == InitLevel /\ [][NextLevel]_vars

\* ------------------------------------------- transport admission, SpecAdmit
\* A Logger whose only transport is one transport of this package, with any
\* minLevel or none: console, file, HTTP (immediate, and batches of 2),
\* socket (buffering up to 1 message, and not buffering; open or not)
MinLevels == LevelSet \cup {"unset"}

AdmitTransports ==
  UNION {{ConsoleAttr(m), FileAttr(m), HttpAttr(m, FALSE, 0), HttpAttr(m, TRUE, 2),
          WebSocketAttr(m, TRUE, 1), WebSocketAttr(m, FALSE, 0)} : m \in MinLevels}

InitAdmit ==
  \E attr \in AdmitTransports, open \in BOOLEAN :
    /\ open => attr.kind = "ws"
    /\ InitLogger([DefaultOptions EXCEPT !.console = "off"], <<attr>>)
    /\ tstate = <<[NewTransportState(attr) EXCEPT
                     !.open = open,
                     !.sockets = IF open THEN <<"OPEN">> ELSE @]>>

NextAdmit ==
  \/ \E lv \in LevelSet : Calls < MaxAdmitCalls /\ Log(1, lv, Undefined)
  \/ \E o \in {"void", "pending"} : WttCall(o)
  \/ \E w \in awaiting : Settle(w, TRUE)
  \/ ResumeWrite
  \/ WttDone
  \/ \E r \in tstate[1].inflight, ok \in BOOLEAN : HttpBatchSettle(1, r, ok)
  \/ Len(tstate[1].requests) < MaxRequests /\ HttpTimerFire(1)

SpecAdmit == InitAdmit /\ [][NextAdmit]_vars

\* An HttpTransport driven directly: immediate mode with each retryCount, or
\* batch mode with a batchSize of 2. The application stops logging to a
\* transport it has closed, and closes it once.
HttpTransports ==
  {HttpRetryAttr("unset", n) : n \in 0..MaxRetryCount} \cup {HttpAttr("unset", TRUE, 2)}

InitHttp ==
  \E attr \in HttpTransports :
    /\ InitLogger([DefaultOptions EXCEPT !.console = "off"], <<attr>>)
    /\ tstate = <<NewTransportState(attr)>>

NextHttp ==
  \/ Len(entries) < MaxHttpCalls /\ ~tstate[1].closed /\ TransportLogCall(1, "info", FALSE)
  \/ \E i \in 1..Len(tstate[1].sends), ok \in BOOLEAN : HttpFetchSettle(1, i, ok)
  \/ \E i \in 1..Len(tstate[1].sends) : HttpRetry(1, i)
  \/ \E r \in tstate[1].inflight, ok \in BOOLEAN : HttpBatchSettle(1, r, ok)
  \/ Len(tstate[1].requests) < MaxRequests /\ HttpTimerFire(1)
  \/ ~tstate[1].closed /\ HttpClose(1)

SpecHttp == InitHttp /\ [][NextHttp]_vars

\* An HttpTransport in batch mode with a batchSize of 1 or 2, driven
\* directly: batches are flushed by size, by the batch timeout and by close()
BatchTransports == {HttpAttr("unset", TRUE, n) : n \in {1, 2}}

InitBatch ==
  \E attr \in BatchTransports :
    /\ InitLogger([DefaultOptions EXCEPT !.console = "off"], <<attr>>)
    /\ tstate = <<NewTransportState(attr)>>

NextBatch ==
  \/ Len(entries) < MaxBatchCalls /\ TransportLogCall(1, "info", FALSE)
  \/ \E r \in tstate[1].inflight, ok \in BOOLEAN : HttpBatchSettle(1, r, ok)
  \/ Len(tstate[1].requests) < MaxBatchPosts /\ HttpTimerFire(1)
  \/ ~tstate[1].closed /\ HttpClose(1)

SpecBatch == InitBatch /\ [][NextBatch]_vars

\* A FileTransport driven directly, without size-based rotation or with a
\* maxSize of two units, constructed where the log file does not exist or
\* exists: empty, below maxSize, or at maxSize
FileMaxSizes == {0, 2}

FileTransports ==
  {FileRotAttr("unset", maxSize, maxFiles, mode, datePattern) :
     maxSize \in FileMaxSizes, maxFiles \in 1..MaxBackups, mode \in {"a", "w"},
     datePattern \in BOOLEAN}

OldLines(n) == [i \in 1..n |-> 0]

InitFile ==
  \E attr \in FileTransports, exists \in BOOLEAN :
    \E n \in {0, 1, attr.maxSize} :
    /\ (~exists) => n = 0
    /\ InitLogger([DefaultOptions EXCEPT !.console = "off"], <<attr>>)
    /\ tstate = <<FileConstruct(attr, exists, OldLines(n))>>

TimeRotations(t) ==
  Cardinality({i \in 1..Len(tstate[t].rotations) : tstate[t].rotations[i].trigger = "time"})

NextFile ==
  \/ \E lv \in {"info", "error"} : Len(entries) < MaxFileCalls /\ TransportLogCall(1, lv, FALSE)
  \/ \E k \in 1..Len(tstate[1].streams) : FileStreamOpen(1, k)
  \/ \E k \in 1..Len(tstate[1].streams) : FileWriteDone(1, k)
  \/ TimeRotations(1) < MaxTimeRotations /\ FileTimeRotation(1)
  \/ ~tstate[1].closed /\ FileClose(1)

SpecFile == InitFile /\ [][NextFile]_vars

\* Time-based rotation. Time is counted in whole hours since the epoch and
\* the local time zone is UTC; the calendar is that of January and February
\* 1970. A transport of SpecTime carries three more fields: now (Date.now()),
\* lastRotationCheck, and checks (the periodic checks made so far).
GetHours(h) == h % 24

\* `Math.floor(date.getTime() / (24 * 60 * 60 * 1000))`
EpochDay(h) == h \div 24

GetMonth(h) == IF EpochDay(h) < 31 THEN 0 ELSE 1

GetDate(h) == IF EpochDay(h) < 31 THEN EpochDay(h) + 1 ELSE EpochDay(h) - 30

GetFullYear(h) == 1970

\* shouldRotateByTime(now), lastRotationCheck being `last`
ShouldRotateByTime(pattern, last, now) ==
  CASE pattern = "hourly" ->
         \/ GetHours(last) # GetHours(now)
         \/ GetDate(last) # GetDate(now)
         \/ GetMonth(last) # GetMonth(now)
         \/ GetFullYear(last) # GetFullYear(now)
    [] pattern = "daily" ->
         \/ GetDate(last) # GetDate(now)
         \/ GetMonth(last) # GetMonth(now)
         \/ GetFullYear(last) # GetFullYear(now)
    [] pattern = "weekly" -> (EpochDay(last) \div 7) # (EpochDay(now) \div 7)
    [] pattern = "monthly" ->
         \/ GetMonth(last) # GetMonth(now)
         \/ GetFullYear(last) # GetFullYear(now)
    [] OTHER -> FALSE

\* The rotation-check interval fires: checkTimeRotation
CheckTimeRotation(t) ==
  /\ active = Idle
  /\ microtasks = <<>>
  /\ t \in 1..Len(tstate)
  /\ tstate[t].interval
  /\ tstate' = [tstate EXCEPT ![t] =
       LET checked == [@ EXCEPT !.checks = @ + 1]
       IN IF ShouldRotateByTime(tattr[t].pattern, checked.lastRotationCheck, checked.now)
            THEN RotateFile([checked EXCEPT !.lastRotationCheck = checked.now],
                            tattr[t], "time")
            ELSE checked]
  /\ UNCHANGED <<loggerVars, arrays, tattr, entries, active, microtasks, awaiting,
                 timers, closes, tlog, consoleOutput, diag, hist>>

\* the file descriptor of a stream that could not open its file
FailedFd == 0 - 1

\* fs.WriteStream k of FileTransport t fails to open its file (the directory
\* was removed, the file is not writable): the stream is destroyed, the
\* callbacks of its waiting writes get the error, and it emits 'error',
\* whose handler has `this.writeStream = null`
FileStreamError(t, k) ==
  /\ active = Idle
  /\ t \in 1..Len(tstate)
  /\ k \in 1..Len(tstate[t].streams)
  /\ tstate[t].streams[k].fd = 0
  /\ \A j \in 1..(k - 1) : tstate[t].streams[j].fd # 0
  /\ tstate' = [tstate EXCEPT ![t] =
       [@ EXCEPT !.streams[k].fd = FailedFd, !.streams[k].pending = <<>>,
                 !.streams[k].ended = TRUE, !.writeStream = 0]]
  /\ UNCHANGED <<loggerVars, arrays, tattr, entries, active, microtasks, awaiting,
                 timers, closes, tlog, consoleOutput, diag, hist>>

\* Time passes: Date.now() becomes h
ClockAdvance(t, h) ==
  /\ active = Idle
  /\ t \in 1..Len(tstate)
  /\ h > tstate[t].now
  /\ tstate' = [tstate EXCEPT ![t].now = h]
  /\ UNCHANGED <<loggerVars, arrays, tattr, entries, active, microtasks, awaiting,
                 timers, closes, tlog, consoleOutput, diag, hist>>

\* A FileTransport with each datePattern and no size-based rotation, made at
\* hour 0 or in the last hour of a day, and the hours at which something
\* happens: either side of the first change of hour, of day, of the
\* seven-day bucket and of month
DatePatterns == {"hourly", "daily", "weekly", "monthly"}

StartTimes == {0, 23}

Times == {0, 1, 23, 24, 167, 168, 743, 744}

InitTime ==
  \E pattern \in DatePatterns, exists \in BOOLEAN, start \in StartTimes :
    LET attr == FileRotAttr("unset", 0, 1, "a", TRUE) @@ [pattern |-> pattern]
    IN /\ InitLogger([DefaultOptions EXCEPT !.console = "off"], <<attr>>)
       /\ tstate = <<FileConstruct(attr, exists, <<>>)
                       @@ [now |-> start, lastRotationCheck |-> start, checks |-> 0]>>

NextTime ==
  \/ Len(entries) < MaxTimeCalls /\ TransportLogCall(1, "info", FALSE)
  \/ \E k \in 1..Len(tstate[1].streams) : FileStreamOpen(1, k)
  \/ \E k \in 1..Len(tstate[1].streams) : FileWriteDone(1, k)
  \/ \E k \in 1..Len(tstate[1].streams) :
       tstate[1].writeStream = k /\ FileStreamError(1, k)
  \/ \E h \in Times : ClockAdvance(1, h)
  \/ tstate[1].checks < MaxChecks /\ CheckTimeRotation(1)
  \/ ~tstate[1].closed /\ FileClose(1)

SpecTime == InitTime /\ [][NextTime]_vars

\* A FileTransport with each kind of file name (with an extension, without,
\* a dot file, two dots), in the working directory or in a directory, that
\* rotates by size
FileNames == {<<"a", ".", "l">>, <<"a">>, <<".", "l">>, <<"a", ".", "b", ".", "l">>}

DirNames == {<<>>, <<"d">>, <<"d", ".", "1">>}

NamedFiles ==
  {FileNameAttr(d, f, maxFiles) : d \in DirNames, f \in FileNames, maxFiles \in 1..MaxBackups}

InitName ==
  \E attr \in NamedFiles, exists \in BOOLEAN :
    \E n \in {0, attr.maxSize} :
    /\ (~exists) => n = 0
    /\ InitLogger([DefaultOptions EXCEPT !.console = "off"], <<attr>>)
    /\ tstate = <<FileConstruct(attr, exists, OldLines(n))>>

NextName ==
  \/ Len(entries) < MaxFileCalls /\ TransportLogCall(1, "info", FALSE)
  \/ \E k \in 1..Len(tstate[1].streams) : FileStreamOpen(1, k)
  \/ \E k \in 1..Len(tstate[1].streams) : FileWriteDone(1, k)
  \/ ~tstate[1].closed /\ FileClose(1)

SpecName == InitName /\ [][NextName]_vars

InBuffer(t, e) == \E i \in 1..Len(tstate[t].buffer) : tstate[t].buffer[i] = e

\* A WebSocketTransport driven directly and closed at most once; socket.send
\* may throw for a log call and for any of the entries flushed on open
WsTransports ==
  {WsReconnectAttr(b, n, r, max, throws) :
     b \in BOOLEAN, n \in 1..MaxBuffer, r \in BOOLEAN, max \in 1..MaxAttempts,
     throws \in BOOLEAN}

InitWs ==
  \E attr \in WsTransports :
    /\ InitLogger([DefaultOptions EXCEPT !.console = "off"], <<attr>>)
    /\ tstate = <<NewTransportState(attr)>>

NextWs ==
  \/ \E throws \in BOOLEAN :
       Len(entries) < MaxWsCalls /\ TransportLogCall(1, "info", throws)
  \/ \E k \in 1..Len(tstate[1].sockets), bad \in SUBSET (1..Len(entries)) :
       (\A e \in bad : InBuffer(1, e)) /\ WsSocketOpen(1, k, bad)
  \/ \E k \in 1..Len(tstate[1].sockets) : WsSocketClosing(1, k)
  \/ \E k \in 1..Len(tstate[1].sockets) : WsSocketClose(1, k)
  \/ Len(tstate[1].sockets) < MaxSockets /\ WsReconnectFire(1)
  \/ ~tstate[1].closed /\ WsClose(1)

SpecWs == InitWs /\ [][NextWs]_vars

\* The flush of the buffer followed iteration by iteration. A transport of
\* SpecFlush carries two more fields: flushAt, the position of the iterator
\* of `for (const entry of this.buffer)` (0: no flush is running), and
\* flushBad, the entries for which socket.send(JSON.stringify(entry)) throws.
\* Socket k opens: handleOpen, and sendBufferedMessages up to its loop
WsFlushOpen(t, k, bad) ==
  /\ active = Idle
  /\ t \in 1..Len(tstate)
  /\ k \in 1..Len(tstate[t].sockets)
  /\ tstate[t].sockets[k] = "CONNECTING"
  /\ tstate' = [tstate EXCEPT ![t] =
       LET opened == [@ EXCEPT !.sockets[k] = "OPEN", !.open = (k = tstate[t].socket),
                               !.reconnectAttempts = 0]
       IN IF Len(opened.buffer) = 0 THEN opened
          ELSE [opened EXCEPT !.flushAt = 1, !.flushBad = bad,
                              !.flushed = Append(@, opened.buffer)]]
  /\ UNCHANGED <<loggerVars, arrays, tattr, entries, active, microtasks, awaiting,
                 timers, closes, tlog, consoleOutput, diag, hist>>

\* One turn of the loop of sendBufferedMessages: the iterator is past the
\* end of the array as it is now (then `this.buffer = []`), or sendLogEntry
\* is called for the entry at its position
WsFlushStep(t) ==
  /\ active = Idle
  /\ t \in 1..Len(tstate)
  /\ tstate[t].flushAt # 0
  /\ tstate' = [tstate EXCEPT ![t] =
       IF @.flushAt > Len(@.buffer)
         THEN [@ EXCEPT !.buffer = <<>>, !.flushAt = 0]
         ELSE [SendLogEntry(@, tattr[t], @.buffer[@.flushAt],
                            @.buffer[@.flushAt] \in @.flushBad)
                 EXCEPT !.flushAt = @ + 1]]
  /\ UNCHANGED <<loggerVars, arrays, tattr, entries, active, microtasks, awaiting,
                 timers, closes, tlog, consoleOutput, diag, hist>>

\* A WebSocketTransport without a cap on its buffer (maxBufferSize 0, or
\* undefined given explicitly) or with a cap
FlushTransports ==
  {WsReconnectAttr(b, n, TRUE, MaxAttempts, FALSE) : b \in BOOLEAN, n \in 0..MaxBuffer}

InitFlush ==
  \E attr \in FlushTransports :
    /\ InitLogger([DefaultOptions EXCEPT !.console = "off"], <<attr>>)
    /\ tstate = <<NewTransportState(attr) @@ [flushAt |-> 0, flushBad |-> {}]>>

NextFlush ==
  \/ /\ tstate[1].flushAt = 0
     /\ \/ Len(entries) < MaxFlushCalls /\ TransportLogCall(1, "info", FALSE)
        \/ \E k \in 1..Len(tstate[1].sockets), bad \in SUBSET (1..Len(entries)) :
             (\A e \in bad : InBuffer(1, e)) /\ WsFlushOpen(1, k, bad)
        \/ \E k \in 1..Len(tstate[1].sockets) : WsSocketClose(1, k)
        \/ Len(tstate[1].sockets) < MaxSockets /\ WsReconnectFire(1)
  \/ Len(tstate[1].buffer) < MaxFlushLen /\ WsFlushStep(1)

SpecFlush == InitFlush /\ [][NextFlush]_vars

\* A Logger in either mode with two transports, whose transports are cleared
\* and replaced while it is logged to
ClearOptions ==
  {[DefaultOptions EXCEPT !.console = "off", !.asyncLogging = a] : a \in BOOLEAN}

ClearUserLists ==
  {<<UserAttr("unset", TRUE), UserAttr("unset", c)>> : c \in BOOLEAN}

InitClear == \E opts \in ClearOptions, user \in ClearUserLists : InitWith(opts, user)

NextClear ==
  \/ Calls < MaxClearLogs /\ Log(1, "info", Undefined)
  \/ \E o \in {"void", "throw", "pending"} : WttCall(o)
  \/ WttDone
  \/ \E w \in awaiting, ok \in BOOLEAN : Settle(w, ok)
  \/ ResumeWrite
  \/ ResumeDrain
  \/ hist.clears < MaxClears /\ ClearTransports(1)
  \/ \E o \in {"void", "throw"} : ClearCall(o)
  \/ ClearDone
  \/ hist.adds < MaxAdds /\ AddTransport(1, UserAttr("unset", TRUE))

SpecClear == InitClear /\ [][NextClear]_vars

\* ------------------------------------------------------------- JsonFormat
\* A JavaScript value: its type t, its text v, and for an object with one
\* property the type p of that property's value (v being its text)
JsVal(t, v, p) == [t |-> t, v |-> v, p |-> p]

JsUndefined == JsVal("undefined", "", "")

JsString(v) == JsVal("string", v, "")

\* `entry.meta &&`, `entry.stackTrace`, `options.timestampKey ||`: ToBoolean
Truthy(x) ==
  CASE x.t = "undefined" -> FALSE
    [] x.t = "string" -> x.v # ""
    [] x.t = "number" -> x.v # "0"
    [] x.t = "NaN" -> FALSE
    [] OTHER -> TRUE

\* JSON.stringify of a value that is not an object: undefined is left out,
\* NaN is written as null, a Date as the string its toJSON returns
StringifyPrimitive(t, v) ==
  CASE t = "undefined" -> JsVal("absent", "", "")
    [] t = "NaN" -> JsVal("null", "", "")
    [] t = "Date" -> JsVal("string", v, "")
    [] OTHER -> JsVal(t, v, "")

\* JSON.stringify of a property value: an object's property is written as
\* StringifyPrimitive writes it, and left out where that writes nothing
StringifyValue(x) ==
  IF x.t = "object"
    THEN LET inner == StringifyPrimitive(x.p, x.v)
         IN IF inner.t = "absent" THEN JsVal("object", "", "")
            ELSE JsVal("object", inner.v, inner.t)
    ELSE StringifyPrimitive(x.t, x.v)

\* JSON.parse of what StringifyValue wrote; a property that was left out
\* reads as undefined
ParseValue(j) == IF j.t = "absent" THEN JsUndefined ELSE j

\* the property names in use: the defaults and the custom ones
KeyNames ==
  {"timestamp", "level", "message", "meta", "stackTrace",
   "@timestamp", "log_level", "log_message", "metadata", "trace"}

\* JsonFormat constructor: `options.timestampKey || 'timestamp'`, ...; an
\* option that is not given is ""
JsonFormatOptions(o) ==
  [timestampKey |-> IF o.timestampKey # "" THEN o.timestampKey ELSE "timestamp",
   levelKey |-> IF o.levelKey # "" THEN o.levelKey ELSE "level",
   messageKey |-> IF o.messageKey # "" THEN o.messageKey ELSE "message",
   metaKey |-> IF o.metaKey # "" THEN o.metaKey ELSE "meta",
   stackTraceKey |-> IF o.stackTraceKey # "" THEN o.stackTraceKey ELSE "stackTrace"]

\* JsonFormat.format with showTimestamp, showLevel and showMeta at their
\* defaults (true), no additionalFields and ISO timestamps: the properties of
\* the JSON text, by name
JsonFormatFormat(opts, entry) ==
  LET logObject == [k \in KeyNames |-> JsUndefined]
      o1 == [logObject EXCEPT ![opts.timestampKey] = entry.timestamp]
      o2 == [o1 EXCEPT ![opts.levelKey] = entry.level]
      o3 == [o2 EXCEPT ![opts.messageKey] = entry.message]
      o4 == IF Truthy(entry.meta) THEN [o3 EXCEPT ![opts.metaKey] = entry.meta] ELSE o3
      o5 == IF Truthy(entry.stackTrace)
              THEN [o4 EXCEPT ![opts.stackTraceKey] = entry.stackTrace] ELSE o4
  IN [k \in KeyNames |-> StringifyValue(o5[k])]

\* JSON.parse of the text: the parsed object's properties by name
JsonParse(text) == [k \in KeyNames |-> ParseValue(text[k])]

\* `new JsonFormat(o).format(entry)`, the application keeping the result
JsonFormatCall(o, entry) ==
  /\ hist' = [hist EXCEPT !.formatted = Append(@,
       [options |-> JsonFormatOptions(o), entry |-> entry,
        text |-> JsonFormatFormat(JsonFormatOptions(o), entry)])]
  /\ UNCHANGED <<loggerVars, arrays, tattr, entries, active, microtasks, awaiting,
                 timers, closes, tlog, consoleOutput, tstate, diag>>

\* Field-name configurations: none, the custom names of the tests, and a
\* levelKey that is another field's name
CustomKeys ==
  [timestampKey |-> "@timestamp", levelKey |-> "log_level", messageKey |-> "log_message",
   metaKey |-> "metadata", stackTraceKey |-> "trace"]

NoKeys ==
  [timestampKey |-> "", levelKey |-> "", messageKey |-> "", metaKey |-> "",
   stackTraceKey |-> ""]

KeyOptions ==
  {[o EXCEPT !.levelKey = lk] : o \in {NoKeys, CustomKeys}, lk \in {"", "log_level", "message"}}

\* meta values: none, falsy ones, a string, and objects with one property
\* holding a number, a NaN or a Date
MetaValues ==
  {JsUndefined, JsVal("number", "0", ""), JsVal("number", "500", ""), JsString("x"),
   JsVal("object", "500", "number"), JsVal("object", "", "NaN"),
   JsVal("object", "2024-01-01T00:00:00.000Z", "Date")}

FormatEntries ==
  {[timestamp |-> JsString("2024-01-01T00:00:00.000Z"), level |-> JsString(lv),
    message |-> JsString("m"), meta |-> meta, stackTrace |-> st] :
     lv \in {"info", "error"}, meta \in MetaValues,
     st \in {JsUndefined, JsString(""), JsString("Error: x")}}

InitFormat ==
  /\ InitLogger([DefaultOptions EXCEPT !.console = "off"], <<>>)
  /\ tstate = <<>>

NextFormat ==
  \E o \in KeyOptions, entry \in FormatEntries :
    Len(hist.formatted) < MaxFormats /\ JsonFormatCall(o, entry)

SpecFormat == InitFormat /\ [][NextFormat]_vars

\* The transports an application constructs, with and without the url or
\* filename
ConstructAttrs ==
  {[HttpAttr("unset", b, 2) EXCEPT !.target = g] : b, g \in BOOLEAN}
  \cup {[WsReconnectAttr(TRUE, 1, TRUE, 1, th) EXCEPT !.target = g] : th, g \in BOOLEAN}
  \cup {[FileRotAttr("unset", 2, 1, "a", dp) EXCEPT !.target = g, !.directory = d] :
          dp, g, d \in BOOLEAN}

InitConstruct ==
  /\ InitLogger([DefaultOptions EXCEPT !.console = "off"], <<>>)
  /\ tstate = <<>>

NextConstruct ==
  \E attr \in ConstructAttrs, exists \in BOOLEAN :
    /\ Len(tattr) + Len(hist.aborted) < MaxConstructs
    /\ exists => (attr.kind = "file" /\ ~attr.directory)
    /\ ConstructTransport(attr, exists)

SpecConstruct == InitConstruct /\ [][NextConstruct]_vars

\* ------------------------------------------------------------ observations
IsLog(ev) == ev[1] = "log"

\* transport t had log invoked for entry e
Received(t, e) == \E i \in 1..Len(tlog[t]) : tlog[t][i] = <<"log", e>>

IsDrainFrame(f, l) == f.l = l /\ ((f.k = "wtt" /\ f.drain) \/ f.k = "drain")

\* number of processQueue bodies between setting and clearing the flag
DrainCount(l) ==
  Cardinality({i \in 1..Len(microtasks) : IsDrainFrame(microtasks[i], l)})
  + Cardinality({f \in awaiting : IsDrainFrame(f, l)})
  + (IF IsDrainFrame(active, l) THEN 1 ELSE 0)

\* number of writeToTransports coroutines alive for entry e
WriteCount(e) ==
  Cardinality({i \in 1..Len(microtasks) : microtasks[i].k = "wtt" /\ microtasks[i].e = e})
  + Cardinality({f \in awaiting : f.k = "wtt" /\ f.e = e})
  + (IF active.k = "wtt" /\ active.e = e THEN 1 ELSE 0)

EntriesOf(l) == {e \in 1..Len(entries) : entries[e].l = l}

AttachedTo(l) == {arrays[transports[l]][i] : i \in 1..Len(arrays[transports[l]])}

\* ------------------------------------------------------------------ claims

\* C1: on one Logger every transport has log invoked for the entries in the
\* order in which the logging calls were issued (entry ids are issue order).
C1_FifoPerTransport ==
  \A t \in TransportIds : \A i, j \in 1..Len(tlog[t]) :
    (i < j /\ IsLog(tlog[t][i]) /\ IsLog(tlog[t][j])
       /\ entries[tlog[t][i][2]].l = entries[tlog[t][j][2]].l)
      => tlog[t][i][2] < tlog[t][j][2]

\* C2: at most one drain loop is active per Logger at any time, and no entry
\* is popped twice: a queued entry was never popped before, no two
\* writeToTransports run for one entry, no transport gets an entry twice.
C2_AtMostOneDrain ==
  /\ \A l \in Loggers :
       /\ DrainCount(l) <= 1
       /\ \A i \in 1..Len(queue[l]) : queue[l][i] \notin hist.popped
  /\ \A e \in 1..Len(entries) : WriteCount(e) <= 1
  /\ \A t \in TransportIds : \A i, j \in 1..Len(tlog[t]) :
       (i < j /\ IsLog(tlog[t][i])) => tlog[t][i] # tlog[t][j]

\* close() polled processQueue while a drain was running with entries queued
C2_Witness ==
  /\ DrainCount(1) = 1
  /\ isClosed[1]
  /\ Len(queue[1]) > 0
  /\ timers # {}

\* C3: when the promise of close() on an asynchronous Logger resolves, every
\* entry accepted (and not evicted from the queue) has had log invoked on
\* every attached transport.
C3_CloseDrainsFully ==
  \A c \in 1..Len(closes) :
    (closes[c].resolved /\ options[closes[c].l].asyncLogging) =>
      \A e \in EntriesOf(closes[c].l) \ hist.evicted :
        \A t \in AttachedTo(closes[c].l) : Received(t, e)

\* C4: with a capacity C > 0 the queue never holds more than C entries; it
\* holds exactly the accepted entries that were neither popped nor evicted,
\* in logging order; every evicted entry is older than every queued one; an
\* eviction happens only on a full queue and removes its head; the caller
\* sees no exception.
C4_QueueInv ==
  \A l \in Loggers :
    (options[l].asyncLogging /\ options[l].logQueue > 0) =>
      /\ Len(queue[l]) <= options[l].logQueue
      /\ \A i, j \in 1..Len(queue[l]) : i < j => queue[l][i] < queue[l][j]
      /\ {queue[l][i] : i \in 1..Len(queue[l])}
           = EntriesOf(l) \ (hist.popped \cup hist.evicted)
      /\ \A x \in hist.evicted \cap EntriesOf(l) :
           \A i \in 1..Len(queue[l]) : x < queue[l][i]
      /\ diag.thrown = 0

C4_EvictStep ==
  \A l \in Loggers :
    (options[l].asyncLogging /\ options[l].logQueue > 0
       /\ hist'.evicted # hist.evicted /\ hist'.calls[l] # hist.calls[l]) =>
      /\ Len(queue[l]) = options[l].logQueue
      /\ Len(queue'[l]) = options[l].logQueue
      /\ hist'.evicted = hist.evicted \cup {Head(queue[l])}
      /\ queue'[l] = Append(Tail(queue[l]), Len(entries'))

C4_BoundedQueue == [](C4_QueueInv) /\ [][C4_EvictStep]_vars

\* an entry was evicted from a full queue of two or more entries
C4_Witness ==
  /\ options[1].logQueue >= 2
  /\ hist.evicted # {}
  /\ Len(queue[1]) = options[1].logQueue

\* C5: a transport failure (throw or rejection) stays inside the Logger: no
\* exception reaches the caller and no promise is left rejected, the
\* dispatch of every popped entry is still running or has offered the entry
\* to every transport of the list, and a non-empty queue still has its drain.
C5_FailureContained ==
  /\ diag.thrown = 0
  /\ diag.unhandled = 0
  /\ \A e \in hist.popped :
       \/ WriteCount(e) = 1
       \/ \E d \in hist.done :
            d[1] = e /\ \A i \in 1..Len(arrays[d[2]]) : Received(arrays[d[2]][i], e)
  /\ \A l \in Loggers : Len(queue[l]) > 0 => DrainCount(l) = 1

\* the first transport failed on an entry, the entry still reached the last
\* transport, and a later entry was dispatched to the end as well
C5_Witness ==
  \E f \in hist.failed : \E d1, d2 \in hist.done :
    /\ d1[1] = f[1]
    /\ d2[1] > f[1]
    /\ Len(arrays[d1[2]]) >= 2
    /\ f[2] = arrays[d1[2]][1]
    /\ Received(arrays[d1[2]][Len(arrays[d1[2]])], f[1])

\* C6: a logging call on a closed Logger only warns: no entry is created,
\* the queue, the transports, the console and the scheduler are untouched.
C6_Step ==
  \A l \in Loggers :
    (isClosed[l] /\ hist'.calls[l] = hist.calls[l] + 1) =>
      /\ entries' = entries
      /\ queue' = queue
      /\ isProcessingQueue' = isProcessingQueue
      /\ tlog' = tlog
      /\ consoleOutput' = consoleOutput
      /\ tstate' = tstate
      /\ active' = active
      /\ microtasks' = microtasks
      /\ awaiting' = awaiting
      /\ diag' = [diag EXCEPT !.warn = @ + 1]

C6_ClosedLoggerIgnoresLog == [][C6_Step]_vars

\* a logging call was made after close() and warned
C6_Witness == isClosed[1] /\ diag.warn > 0

\* The order of the levels as the claims state it
LevelRank == [debug |-> 1, info |-> 2, warn |-> 3, error |-> 4, fatal |-> 5]

\* an entry of this level passes a minimum level (none: everything passes)
Admits(minLevel, level) ==
  minLevel = "unset" \/ LevelRank[level] >= LevelRank[minLevel]

InSeq(x, sq) == \E i \in 1..Len(sq) : sq[i] = x

\* transport t did something with entry e: printed, wrote, queued, posted,
\* buffered, sent it, or discarded it after admitting it
Effect(t, e) ==
  \/ InSeq(<<t, e>>, consoleOutput)
  \/ InSeq(e, tstate[t].writes)
  \/ InSeq(e, tstate[t].logQueue)
  \/ \E r \in 1..Len(tstate[t].requests) : InSeq(e, tstate[t].requests[r])
  \/ InSeq(e, tstate[t].buffer)
  \/ InSeq(e, tstate[t].sent)
  \/ e \in tstate[t].dropped

\* C7: a transport of this package with minLevel L2 does nothing with an
\* entry below L2 and acts on every entry at L2 or above; without minLevel it
\* acts on every entry.
C7_AdmitInv ==
  \A t \in TransportIds : \A e \in 1..Len(entries) :
    (tattr[t].kind # "user" /\ Received(t, e)) =>
      (Effect(t, e) <=> Admits(tattr[t].minLevel, entries[e].level))

\* C7: the log call for a rejected entry changes nothing in the transport,
\* prints nothing and returns no promise.
C7_RejectStep ==
  \A t \in TransportIds :
    (/\ tattr[t].kind # "user"
     /\ Len(tlog'[t]) = Len(tlog[t]) + 1
     /\ tlog'[t][Len(tlog'[t])][1] = "log"
     /\ ~Admits(tattr[t].minLevel, entries[tlog'[t][Len(tlog'[t])][2]].level)) =>
      /\ tstate' = tstate
      /\ consoleOutput' = consoleOutput
      /\ awaiting' = awaiting

C7_TransportAdmission == [](C7_AdmitInv) /\ [][C7_RejectStep]_vars

\* a transport with minLevel "warn" was handed an "info" entry, which left no
\* trace, and a "warn" entry, which it acted on
C7_Witness ==
  \E t \in TransportIds : \E e1, e2 \in 1..Len(entries) :
    /\ tattr[t].kind \in {"http", "ws"}
    /\ tattr[t].minLevel = "warn"
    /\ entries[e1].level = "info" /\ Received(t, e1) /\ ~Effect(t, e1)
    /\ entries[e2].level = "warn" /\ Received(t, e2) /\ Effect(t, e2)

\* the transports the Logger l created itself (after those of options.transports)
DefaultTransportsOf(l) ==
  {arrays[transports[l]][i] :
     i \in (Len(options[l].transports) + 1)..Len(arrays[transports[l]])}

\* the entries a console / file transport put out
PutOut(t) ==
  {e \in 1..Len(entries) : InSeq(<<t, e>>, consoleOutput) \/ InSeq(e, tstate[t].writes)}

Quiescent ==
  /\ active = Idle
  /\ microtasks = <<>>
  /\ awaiting = {}
  /\ \A l \in Loggers : queue[l] = <<>>

\* C8: the Logger offers every entry, whatever its level, to every attached
\* transport; a transport passed in options.transports puts out the entries
\* its own minLevel admits; a default transport puts out the entries at or
\* above the Logger's level, or above the minLevel its own options set.
C8_LevelPerTransport ==
  /\ \A d \in hist.done :
       \A i \in 1..Len(arrays[d[2]]) : Received(arrays[d[2]][i], d[1])
  /\ Quiescent =>
       \A e \in 1..Len(entries) : <<e, transports[entries[e].l]>> \in hist.done
  /\ \A l \in Loggers : \A t \in AttachedTo(l) :
       LET own == IF t \in DefaultTransportsOf(l)
                    THEN LET opt == IF tattr[t].kind = "console" THEN options[l].console
                                    ELSE options[l].file
                         IN IF opt \in LevelSet THEN opt ELSE options[l].level
                    ELSE tattr[t].minLevel
       IN PutOut(t) = {e \in 1..Len(entries) :
                         Received(t, e) /\ Admits(own, entries[e].level)}

\* a Logger of level "warn" with console: true and a user-supplied transport
\* of minLevel "debug" logged an "info" entry: the console transport was
\* handed it and printed nothing, the user-supplied transport wrote it
C8_Witness ==
  /\ options[1].level = "warn"
  /\ options[1].console = "on"
  /\ Len(options[1].transports) = 1
  /\ \E e \in 1..Len(entries) :
       /\ entries[e].level = "info"
       /\ <<e, transports[1]>> \in hist.done
       /\ InSeq(e, tstate[1].writes)
       /\ \E t \in DefaultTransportsOf(1) :
            tattr[t].kind = "console" /\ Received(t, e) /\ e \notin PutOut(t)

\* C9: a second close() changes nothing: in particular no transport has
\* close invoked by any close() call but the first one of its Logger.
C9_SecondCloseNoOp ==
  \A t \in TransportIds : \A i \in 1..Len(tlog[t]) :
    (tlog[t][i][1] = "close" /\ tlog[t][i][2] # 0) =>
      \A c \in 1..(tlog[t][i][2] - 1) : closes[c].l # closes[tlog[t][i][2]].l

\* C10: an entry logged through a child logger carries every key of the
\* call-site metadata with the call-site value, every other key of the
\* metadata fixed at child() with that value, and no other key: nothing comes
\* from the Logger child() was called on.
C10_ChildMetaMerge ==
  \A e \in 1..Len(entries) :
    LET l == entries[e].l
        M == proxyMeta[l]
        A == hist.args[e]
        R == entries[e].meta
        AK == IF A.def THEN Keys(A.kv) ELSE {}
    IN hist.parent[l] # 0 =>
         /\ R.def
         /\ M.def
         /\ \A p \in R.kv, q \in R.kv : p[1] = q[1] => p = q
         /\ \A k \in MetaKeys :
              /\ k \in AK => \E v \in MetaVals : <<k, v>> \in A.kv /\ <<k, v>> \in R.kv
              /\ (k \notin AK /\ k \in Keys(M.kv)) =>
                   \E v \in MetaVals : <<k, v>> \in M.kv /\ <<k, v>> \in R.kv
              /\ (k \notin AK /\ k \notin Keys(M.kv)) => k \notin Keys(R.kv)

\* a child of a child logged with call-site metadata that collides with its
\* own fixed metadata, while its parent has a fixed key it does not have
C10_Witness ==
  \E e \in 1..Len(entries) :
    LET l == entries[e].l
        p == hist.parent[l]
    IN /\ p # 0
       /\ hist.parent[p] # 0
       /\ hist.args[e].def
       /\ \E k \in Keys(proxyMeta[p].kv) : k \notin Keys(entries[e].meta.kv)
       /\ \E k \in Keys(proxyMeta[l].kv) \cap Keys(hist.args[e].kv) :
            \E v, w \in MetaVals :
              v # w /\ <<k, v>> \in proxyMeta[l].kv /\ <<k, w>> \in hist.args[e].kv

\* number of POSTs of transport t that carried entry e alone
PostsOf(t, e) ==
  Cardinality({r \in 1..Len(tstate[t].requests) : tstate[t].requests[r] = <<e>>})

\* C11: in immediate mode an HttpTransport POSTs an entry once per attempt and
\* makes at most retryCount + 1 attempts: an entry whose attempts all failed
\* was POSTed exactly retryCount + 1 times and is then dropped (queued
\* nowhere, sendLog returned), and an entry whose attempt k succeeded was
\* POSTed exactly k times.
C11_RetryThenDrop ==
  \A t \in 1..Len(tstate) :
    (tattr[t].kind = "http" /\ ~tattr[t].batchLogs) =>
      /\ tstate[t].logQueue = <<>>
      /\ \A i \in 1..Len(tstate[t].sends) :
           LET sd == tstate[t].sends[i] IN
             /\ PostsOf(t, sd.e) = sd.attempt + 1
             /\ sd.attempt <= tattr[t].retryCount
             /\ sd.phase = "gaveup" => sd.attempt = tattr[t].retryCount
             /\ sd.phase = "delay" => sd.attempt < tattr[t].retryCount

\* an entry was given up after retries, and another was sent on a retry
C11_Witness ==
  /\ tattr[1].kind = "http" /\ tattr[1].retryCount = 2
  /\ \E i \in 1..Len(tstate[1].sends) :
       tstate[1].sends[i].phase = "gaveup" /\ PostsOf(1, tstate[1].sends[i].e) = 3
  /\ \E i \in 1..Len(tstate[1].sends) :
       tstate[1].sends[i].phase = "sent" /\ tstate[1].sends[i].attempt = 1

\* C12: in batch mode, while the transport is not closed, a queued entry
\* always has a batch POST coming: the batch timeout is pending or a
\* sendBatch that will re-arm it is in flight.
C12_BatchTimerAlive ==
  \A t \in 1..Len(tstate) :
    (tattr[t].kind = "http" /\ tattr[t].batchLogs /\ ~tstate[t].closed
       /\ tstate[t].logQueue # <<>>)
      => (tstate[t].timer \/ tstate[t].inflight # {})

\* C13: once close() of an HttpTransport has resolved, no batch timeout is
\* pending.
C13_NoTimerAfterClose ==
  \A t \in 1..Len(tstate) :
    (tattr[t].kind = "http" /\ tstate[t].closeResolved) => ~tstate[t].timer

IsPrefix(a, b) == Len(a) <= Len(b) /\ \A i \in 1..Len(a) : a[i] = b[i]

\* what the file at the log path holds (nothing where there is none)
LiveContent(s) == IF s.disk[0] = 0 THEN <<>> ELSE s.files[s.disk[0]]

FileIds == {t \in 1..Len(tstate) : tattr[t].kind = "file"}

\* C14: with size-based rotation the tracked size is the byte count of the
\* file at the log path: every successful write adds its bytes to both, and
\* the one rotation that follows the write which reaches maxSize leaves the
\* tracked size at 0 and the log file empty, also when several writes were
\* issued before their callbacks ran (append mode, no time-based rotation).
C14_TrackedSizeIsLiveSize ==
  \A t \in FileIds :
    (tattr[t].mode = "a" /\ tattr[t].maxSize # 0 /\ ~tattr[t].datePattern)
      => tstate[t].currentSize = SizeOf(LiveContent(tstate[t]))

\* C15, state part: the backups that exist have indices in 1..maxFiles, and
\* the backup with index i is the file moved away by the i-th most recent
\* rotation, with the content it had then in front.
C15_BackupsInv ==
  \A t \in FileIds : tattr[t].maxFiles > 0 =>
    LET s == tstate[t]
        n == Len(s.rotations)
    IN /\ \A i \in DOMAIN s.disk : i > tattr[t].maxFiles => s.disk[i] = 0
       /\ \A i \in 1..tattr[t].maxFiles : s.disk[i] # 0 =>
            /\ i <= n
            /\ s.disk[i] = s.rotations[n - i + 1].file
            /\ IsPrefix(s.rotations[n - i + 1].content, s.files[s.disk[i]])

\* C15, step part: a rotation that finds the backup with index maxFiles
\* removes that file from the directory.
C15_DeleteStep ==
  \A t \in FileIds :
    (tattr[t].maxFiles > 0
       /\ Len(tstate'[t].rotations) > Len(tstate[t].rotations)
       /\ tstate[t].disk[tattr[t].maxFiles] # 0)
      => \A i \in DOMAIN tstate'[t].disk :
           tstate'[t].disk[i] # tstate[t].disk[tattr[t].maxFiles]

\* C15: backup retention. After any number of rotations only the backups
\* 1..maxFiles exist, backup i is that of the i-th most recent rotation, and
\* a rotation that finds backup maxFiles deletes it.
C15_BackupRetention == []C15_BackupsInv /\ [][C15_DeleteStep]_vars

\* more rotations than maxFiles happened: every backup exists, and the file
\* of the oldest rotation is gone
C15_Witness ==
  /\ tattr[1].kind = "file" /\ tattr[1].maxFiles = 2
  /\ Len(tstate[1].rotations) = 3
  /\ tstate[1].disk[1] # 0 /\ tstate[1].disk[2] # 0
  /\ tstate[1].rotations[1].file # 0
  /\ \A i \in DOMAIN tstate[1].disk : tstate[1].disk[i] # tstate[1].rotations[1].file

\* number of lines of `content` that were found at construction
OldLineCount(content) == Cardinality({i \in 1..Len(content) : content[i] = 0})

\* C16: a log file found at construction with a size of maxSize or more is
\* rotated away before anything is written: no entry is ever written into the
\* file that holds those lines.
C16_StartupRotation ==
  \A t \in FileIds : tattr[t].maxSize # 0 =>
    \A f \in 1..Len(tstate[t].files) :
      OldLineCount(tstate[t].files[f]) >= tattr[t].maxSize
        => \A i \in 1..Len(tstate[t].files[f]) : tstate[t].files[f][i] = 0

\* every stream on which end() was called has opened its file; after close()
\* these are the streams made before it, or ended by a rotation since
EndedStreamsOpen(s) ==
  \A k \in 1..Len(s.streams) : s.streams[k].ended => s.streams[k].fd # 0

\* C17: once close() was called on a FileTransport (and the handles ended by
\* then have opened), what its log file holds stays in it: no step but a
\* rotation takes bytes out of the file at the log path, and so not the
\* reopening of the handle by a later log call.
C17_CloseKeepsContent ==
  [][\A t \in FileIds :
       (tstate[t].closed /\ EndedStreamsOpen(tstate[t])
          /\ tstate'[t].rotations = tstate[t].rotations)
         => IsPrefix(LiveContent(tstate[t]), LiveContent(tstate'[t]))]_vars

WsIds == {t \in 1..Len(tstate) : tattr[t].kind = "ws" /\ tattr[t].maxBufferSize > 0}

\* the last n elements of q
LastN(q, n) == IF Len(q) <= n THEN q ELSE SubSeq(q, Len(q) - n + 1, Len(q))

\* C18, state part: `open` is that this.socket is OPEN; the buffer is never
\* longer than maxBufferSize and holds entries in arrival order.
C18_BufferInv ==
  \A t \in WsIds :
    LET s == tstate[t] IN
      /\ s.open = (s.socket # 0 /\ s.sockets[s.socket] = "OPEN")
      /\ Len(s.buffer) <= tattr[t].maxBufferSize
      /\ \A i, j \in 1..Len(s.buffer) : i < j => s.buffer[i] < s.buffer[j]

\* C18, step part: a log call while the socket is not open sends nothing;
\* with buffering the buffer becomes its most recent maxBufferSize entries
\* with the new one last, without it the entry is dropped and the buffer
\* stays as it is.
C18_LogStep ==
  \A t \in WsIds :
    (Len(tlog'[t]) = Len(tlog[t]) + 1 /\ IsLog(tlog'[t][Len(tlog'[t])]) /\ ~tstate[t].open)
      => LET e == tlog'[t][Len(tlog'[t])][2] IN
           /\ tstate'[t].sent = tstate[t].sent
           /\ IF tattr[t].bufferWhenDisconnected
                THEN tstate'[t].buffer =
                       LastN(Append(tstate[t].buffer, e), tattr[t].maxBufferSize)
                ELSE tstate'[t].buffer = tstate[t].buffer /\ e \in tstate'[t].dropped

\* C18: while the socket is not open an admitted entry is not sent but put
\* into the capped buffer (the oldest entry leaving a full buffer), or
\* dropped where buffering is disabled.
C18_BufferWhenNotOpen == []C18_BufferInv /\ [][C18_LogStep]_vars

\* a full buffer has lost its oldest entry to a newer one
C18_Witness ==
  /\ tattr[1].kind = "ws" /\ tattr[1].bufferWhenDisconnected
  /\ tattr[1].maxBufferSize = 2
  /\ ~tstate[1].open
  /\ tstate[1].buffer = <<2, 3>>
  /\ 1 \in tstate[1].dropped

\* C19, state part: the attempt counter never exceeds maxReconnectAttempts.
C19_CounterInv ==
  \A t \in WsIds : tstate[t].reconnectAttempts <= tattr[t].maxReconnectAttempts

\* C19, step part: a close schedules one reconnect and adds one to the
\* counter exactly when reconnection is enabled and the counter is below
\* maxReconnectAttempts; an open resets the counter; with the counter at the
\* ceiling and no reconnect pending no socket is made.
C19_Step ==
  \A t \in WsIds :
    LET s == tstate[t]
        n == tstate'[t]
    IN /\ n.closeEvents = s.closeEvents + 1 =>
            IF s.reconnect /\ s.reconnectAttempts < tattr[t].maxReconnectAttempts
              THEN n.reconnectAttempts = s.reconnectAttempts + 1 /\ n.reconnectTimer
              ELSE n.reconnectAttempts = s.reconnectAttempts
                   /\ (n.reconnectTimer => s.reconnectTimer)
       /\ (\E k \in 1..Len(s.sockets) : s.sockets[k] # "OPEN" /\ n.sockets[k] = "OPEN")
            => n.reconnectAttempts = 0
       /\ (s.reconnectAttempts = tattr[t].maxReconnectAttempts /\ ~s.reconnectTimer)
            => Len(n.sockets) = Len(s.sockets)

\* C19: reconnection is scheduled once per close while enabled and below the
\* ceiling, the counter counts the schedulings since the last open and
\* never exceeds maxReconnectAttempts, and at the ceiling nothing reconnects.
C19_ReconnectBounded == []C19_CounterInv /\ [][C19_Step]_vars

\* the counter is at the ceiling and the socket of the last attempt has
\* closed without a further reconnect
C19_Witness ==
  /\ tattr[1].kind = "ws" /\ tattr[1].reconnect /\ ~tattr[1].urlThrows
  /\ tattr[1].maxReconnectAttempts = 2
  /\ ~tstate[1].closed
  /\ tstate[1].reconnectAttempts = 2 /\ ~tstate[1].reconnectTimer
  /\ tstate[1].closeEvents = 3
  /\ tstate[1].sockets = <<"CLOSED", "CLOSED", "CLOSED">>

\* C20, state part: after close() no reconnect is pending, this.socket is
\* null and no socket is CONNECTING or OPEN.
C20_ClosedInv ==
  \A t \in WsIds : tstate[t].closed =>
    /\ ~tstate[t].reconnectTimer
    /\ tstate[t].socket = 0 /\ ~tstate[t].open
    /\ \A k \in 1..Len(tstate[t].sockets) :
         tstate[t].sockets[k] \notin {"CONNECTING", "OPEN"}

\* C20, step part: after close() no socket is made.
C20_ClosedStep ==
  \A t \in WsIds : tstate[t].closed => Len(tstate'[t].sockets) = Len(tstate[t].sockets)

\* C20: close() of a WebSocketTransport is terminal: from then on no
\* reconnect is pending, no connection attempt starts and no socket is
\* connecting or open, whatever socket events arrive.
C20_CloseIsTerminal == []C20_ClosedInv /\ [][C20_ClosedStep]_vars

\* the close event of the socket that close() closed has arrived on a
\* transport with reconnection enabled, and nothing was scheduled
C20_Witness ==
  /\ tattr[1].kind = "ws" /\ tattr[1].reconnect /\ ~tattr[1].urlThrows
  /\ tstate[1].closed
  /\ tstate[1].sockets = <<"CLOSED">>
  /\ tstate[1].closeEvents = 1
  /\ tstate[1].reconnectAttempts = 0

InSent(t, e) == \E i \in 1..Len(tstate[t].sent) : tstate[t].sent[i] = e

\* C21: with buffering enabled an entry whose send failed is kept for a later
\* attempt: every entry the transport was given has been sent, or is in the
\* buffer, or left a full buffer as its oldest entry.
C21_FailedSendRebuffered ==
  \A t \in 1..Len(tstate) :
    (tattr[t].kind = "ws" /\ tattr[t].bufferWhenDisconnected) =>
      \A e \in 1..Len(entries) :
        Received(t, e) => (InSent(t, e) \/ InBuffer(t, e) \/ e \in tstate[t].dropped)

\* a constructor has had no effect: no batch timeout, no socket and no
\* reconnect timeout, no directory, no stream, no rotation-check interval
NoEffect(s) ==
  /\ ~s.timer
  /\ s.sockets = <<>> /\ s.socket = 0 /\ ~s.reconnectTimer
  /\ ~s.dirCreated /\ s.streams = <<>> /\ s.writeStream = 0 /\ ~s.interval
  /\ s.rotations = <<>>

\* C22: a transport is constructed exactly where its url or filename is
\* given; the constructor that throws for a missing one has had no effect.
C22_ConstructorThrowsFirst ==
  /\ \A t \in TransportIds : tattr[t].target
  /\ \A i \in 1..Len(hist.aborted) :
       ~hist.aborted[i].attr.target /\ NoEffect(hist.aborted[i].s)

\* each of the three constructors has thrown, for options that would have
\* armed a batch timeout, connected, and made a directory
C22_Witness ==
  /\ Len(hist.aborted) = 3
  /\ hist.aborted[1].attr.kind = "http" /\ hist.aborted[1].attr.batchLogs
  /\ hist.aborted[2].attr.kind = "ws" /\ ~hist.aborted[2].attr.urlThrows
  /\ hist.aborted[3].attr.kind = "file" /\ hist.aborted[3].attr.directory

\* transport t has its log invoked in this step
LogInvoked(t) ==
  /\ t \in 1..Len(tlog)
  /\ Len(tlog'[t]) = Len(tlog[t]) + 1
  /\ IsLog(tlog'[t][Len(tlog'[t])])

\* C23: clearTransports is atomic with respect to delivery: the Logger
\* invokes log only on a transport that is in its transport list, so never
\* on one that clearTransports() has removed.
C23_NoLogAfterClear ==
  [][\A t \in TransportIds : LogInvoked(t) => t \in AttachedTo(1)]_vars

\* C24: an entry carries a stackTrace only if its level is error or fatal and
\* its Logger has includeStackTrace enabled.
C24_StackTraceOnlyForErrors ==
  \A e \in 1..Len(entries) :
    entries[e].stackTrace =>
      /\ entries[e].level \in {"error", "fatal"}
      /\ options[entries[e].l].includeStackTrace

\* includeStackTrace is enabled, an error entry carries a stack and an entry
\* below error was built too
C24_Witness ==
  /\ options[1].includeStackTrace
  /\ \E e, f \in 1..Len(entries) :
       /\ entries[e].level = "error" /\ entries[e].stackTrace
       /\ entries[f].level \in {"debug", "info", "warn"} /\ ~entries[f].stackTrace

\* the path p without its extension
WithoutExt(p) == SubSeq(p, 1, Len(p) - Len(Extname(p)))

\* C25: the backup of a rotation is named <base>.1<ext>, base being the log
\* file's path without its extension and ext its extension, possibly empty.
C25_BackupNames ==
  \A t \in FileIds : \A i \in 1..Len(tstate[t].rotations) :
    LET path == GetFilePath(tattr[t])
        backup == tstate[t].rotations[i].backup
    IN backup # <<>> => backup = WithoutExt(path) \o <<".", "1">> \o Extname(path)

\* C26: parsing the text JsonFormat.format produced yields the entry's
\* timestamp, level, message, meta and stackTrace under the configured field
\* names, whatever the entry and the field names.
C26_JsonRoundTrip ==
  \A i \in 1..Len(hist.formatted) :
    LET f == hist.formatted[i]
        parsed == JsonParse(f.text)
    IN /\ parsed[f.options.timestampKey] = f.entry.timestamp
       /\ parsed[f.options.levelKey] = f.entry.level
       /\ parsed[f.options.messageKey] = f.entry.message
       /\ parsed[f.options.metaKey] = f.entry.meta
       /\ parsed[f.options.stackTraceKey] = f.entry.stackTrace

\* C27: close() invokes a transport's close only after the drain is
\* complete: no transport has log invoked after its close was invoked by
\* close() (a closed Logger accepts no entry, so every entry was accepted
\* before close()).
C27_CloseAfterDrain ==
  \A t \in TransportIds : \A i, j \in 1..Len(tlog[t]) :
    (i < j /\ tlog[t][i][1] = "close" /\ tlog[t][i][2] # 0) => ~IsLog(tlog[t][j])

\* a logging call on an asynchronous Logger returns having only enqueued: no
\* entry is popped and no delivery is left running on the caller's path
C28_AsyncStep ==
  \A l \in Loggers :
    (/\ options[l].asyncLogging /\ ~isClosed[l]
     /\ hist'.calls[l] = hist.calls[l] + 1) =>
      /\ active' = Idle
      /\ hist'.popped = hist.popped

\* on a synchronous Logger the fan-out of an entry starts only when the
\* fan-out of every earlier entry has finished
C28_SyncStep ==
  \A t \in TransportIds :
    (LogInvoked(t) /\ active.k = "wtt" /\ active.idx = 1
       /\ ~options[active.l].asyncLogging) =>
      \A e \in EntriesOf(active.l) :
        e < active.e => \E d \in hist.done : d[1] = e

\* C28: in asynchronous mode a logging call only enqueues on the caller's
\* synchronous path; in synchronous mode the fan-out of a later entry does
\* not start before the fan-out of the earlier entry has finished.
C28_NoReentry == [][C28_AsyncStep /\ C28_SyncStep]_vars

\* the drain runs exactly while the flag is set, and entries are queued only
\* while it runs
C29_DrainInv ==
  \A l \in Loggers :
    /\ isProcessingQueue[l] <=> DrainCount(l) = 1
    /\ Len(queue[l]) > 0 => isProcessingQueue[l]

\* entry e was handed to every attached transport, or evicted by overflow
Delivered(e) ==
  \/ e \in hist.evicted
  \/ \A t \in AttachedTo(entries[e].l) : Received(t, e)

Drained == \A l \in Loggers : queue[l] = <<>> /\ ~isProcessingQueue[l]

\* C29: the drain stops only when the queue is empty, clearing the flag;
\* every enqueued entry that is not evicted is eventually handed to every
\* attached transport, and the Logger eventually stays at queue empty and
\* not draining.
C29_DrainLiveness ==
  /\ []C29_DrainInv
  /\ \A e \in 1..MaxDrainCalls : (Len(entries) >= e) ~> (Len(entries) >= e /\ Delivered(e))
  /\ []<>Drained

\* a drain took an entry that was enqueued while it was running, a transport
\* failed, and the Logger is idle with every entry delivered
C29_Witness ==
  /\ Drained
  /\ Quiescent
  /\ Len(entries) >= 2
  /\ hist.failed # {}
  /\ \A e \in 1..Len(entries) : Delivered(e)
  /\ \E e \in 1..Len(entries) : e \notin hist.evicted /\ e > 1

HttpBatchIds == {t \in 1..Len(tstate) : tattr[t].kind = "http" /\ tattr[t].batchLogs}

\* the number of places entry e is held at: the queue, and the batch POSTs
\* that are in flight or have succeeded
HeldAt(t, e) ==
  Cardinality({i \in 1..Len(tstate[t].logQueue) : tstate[t].logQueue[i] = e})
  + Cardinality({<<r, i>> \in (1..Len(tstate[t].requests)) \X (1..Len(entries)) :
       /\ i <= Len(tstate[t].requests[r])
       /\ tstate[t].requests[r][i] = e
       /\ r \notin tstate[t].batchFailed})

\* every entry given to the transport is queued, in a batch in flight or in a
\* batch that was accepted, exactly once; nothing is sent entry by entry
C30_NothingDropped ==
  \A t \in HttpBatchIds :
    /\ tstate[t].sends = <<>>
    /\ \A e \in 1..Len(entries) : Received(t, e) => HeldAt(t, e) = 1

\* the step in which the POST of batch r fails puts the batch back in front
\* of the queue and sends nothing; the next flush sends the whole queue
C30_Step ==
  \A t \in HttpBatchIds :
    /\ \A r \in tstate'[t].batchFailed \ tstate[t].batchFailed :
         /\ tstate'[t].logQueue = tstate[t].requests[r] \o tstate[t].logQueue
         /\ tstate'[t].requests = tstate[t].requests
    /\ Len(tstate'[t].requests) > Len(tstate[t].requests) =>
         /\ IsPrefix(tstate[t].logQueue, tstate'[t].requests[Len(tstate'[t].requests)])
         /\ tstate'[t].logQueue = <<>>

\* C30: in batch mode a failed batch POST puts the whole batch back at the
\* head of the queue, in front of the entries admitted meanwhile, and the
\* next flush sends it again with them; no entry is retried alone or dropped.
C30_FailedBatchRequeued == []C30_NothingDropped /\ [][C30_Step]_vars

\* a batch failed while an entry was admitted, and a later POST carried the
\* failed batch followed by that entry
C30_Witness ==
  \E r \in tstate[1].batchFailed : \E r2 \in (r + 1)..Len(tstate[1].requests) :
    /\ IsPrefix(tstate[1].requests[r], tstate[1].requests[r2])
    /\ Len(tstate[1].requests[r2]) > Len(tstate[1].requests[r])

\* C31: in every batch that is POSTed the entries are in the order in which
\* log admitted them (entry ids are admission order).
C31_BatchInAdmissionOrder ==
  \A t \in HttpBatchIds : \A r \in 1..Len(tstate[t].requests) :
    \A i, j \in 1..Len(tstate[t].requests[r]) :
      i < j => tstate[t].requests[r][i] < tstate[t].requests[r][j]

\* socket k of transport t reaches open in this step
Opens(t, k) ==
  /\ k \in 1..Len(tstate[t].sockets)
  /\ tstate[t].sockets[k] = "CONNECTING"
  /\ tstate'[t].sockets[k] = "OPEN"

Bucket(pattern, h) ==
  CASE pattern = "hourly" -> <<GetFullYear(h), GetMonth(h), GetDate(h), GetHours(h)>>
    [] pattern = "daily" -> <<GetFullYear(h), GetMonth(h), GetDate(h)>>
    [] pattern = "weekly" -> <<EpochDay(h) \div 7>>
    [] pattern = "monthly" -> <<GetFullYear(h), GetMonth(h)>>

C33_CheckRotatesOnNewBucket ==
  [][\A t \in 1..Len(tstate) :
       tstate'[t].checks = tstate[t].checks + 1 =>
         ((Len(tstate'[t].rotations) = Len(tstate[t].rotations) + 1)
            <=> (Bucket(tattr[t].pattern, tstate[t].lastRotationCheck)
                   # Bucket(tattr[t].pattern, tstate[t].now)))]_vars

\* C34: in asynchronous mode, whenever control is back at the event loop a
\* non-empty queue implies that isProcessingQueue is set; the flag is set
\* only while a drain loop is running (one at most), and it is never left
\* set once the drain has ended, whatever the transports do
C34_QueueFlagConsistent ==
  \A l \in Loggers :
    /\ (active = Idle /\ queue[l] # <<>>) => isProcessingQueue[l]
    /\ isProcessingQueue[l] => DrainCount(l) = 1
    /\ DrainCount(l) = 0 => ~isProcessingQueue[l]
    /\ DrainCount(l) <= 1

\* a transport has thrown or rejected, the drain has ended since, and entries
\* were queued while it ran
C34_Witness ==
  /\ active = Idle
  /\ options[1].asyncLogging
  /\ hist.failed # {}
  /\ ~isProcessingQueue[1]
  /\ queue[1] = <<>>
  /\ Cardinality(hist.popped) >= 2

\* the number of times entry e occurs in the sequences of `seqs`
Occurrences(seqs, e) ==
  Cardinality({<<r, i>> \in (DOMAIN seqs) \X (1..Len(entries)) :
                 i <= Len(seqs[r]) /\ seqs[r][i] = e})

InLiveQueue(t, e) == Occurrences(<<tstate[t].logQueue>>, e)

InFlight(t, e) ==
  Occurrences([r \in tstate[t].inflight |-> tstate[t].requests[r]], e)

Posted(t, e) ==
  Occurrences([r \in (1..Len(tstate[t].requests))
                       \ (tstate[t].inflight \cup tstate[t].batchFailed) |->
                 tstate[t].requests[r]], e)

\* C35: in batch mode every admitted entry is, at every moment, in exactly
\* one place: the live queue, a batch in flight, or a batch that was POSTed
\* successfully; it is nowhere twice and never disappears, whatever the
\* interleaving of log calls, timer flushes, POST outcomes and close()
C35_EntryInOnePlace ==
  \A t \in HttpBatchIds : \A e \in 1..Len(entries) :
    Received(t, e) => InLiveQueue(t, e) + InFlight(t, e) + Posted(t, e) = 1

\* after close(), with a batch that failed and one that succeeded: an entry
\* sits in the queue, another one in a successful POST
C35_Witness ==
  /\ tstate[1].closed
  /\ tstate[1].batchFailed # {}
  /\ \E e \in 1..Len(entries) : InLiveQueue(1, e) = 1
  /\ \E e \in 1..Len(entries) : Posted(1, e) = 1
  /\ \E e \in 1..Len(entries) : InFlight(1, e) = 1

\* C36: an HttpTransport in batch mode has at most one batch POST in flight
\* at any time
C36_OnePostInFlight ==
  \A t \in HttpBatchIds : Cardinality(tstate[t].inflight) <= 1

\* no write of FileTransport t is in flight: every stream has opened its
\* file and every chunk given to a stream has been written
NoWriteInFlight(t) ==
  \A k \in 1..Len(tstate[t].streams) :
    tstate[t].streams[k].fd # 0 /\ tstate[t].streams[k].pending = <<>>

\* C37: whenever no write is in flight, currentSize is the number of bytes in
\* the live file; after a rotation it counts only the bytes written to the
\* new live file, never those of writes issued to the handle of the rotated
\* file (append mode)
C37_SizeWhenQuiet ==
  \A t \in FileIds :
    (tattr[t].mode = "a" /\ NoWriteInFlight(t))
      => tstate[t].currentSize = SizeOf(LiveContent(tstate[t]))

\* close call c still has something to run: a frame of its
\* processRemainingLogs (or of the processQueue it awaits) is running, ready
\* or awaiting a promise, or its 100 ms timer is set
CloseAlive(c) ==
  \/ active.cw = c
  \/ \E i \in 1..Len(microtasks) : microtasks[i].cw = c
  \/ \E f \in awaiting : f.cw = c
  \/ c \in timers

\* C38: close() terminates when the log and close calls of the transports
\* settle; when it has, its promise is resolved and every attached transport
\* that has a close method has had it invoked; a transport whose close throws
\* or rejects prevents neither the closing of the others nor the resolution.
\* Stated as: a close() call with nothing left to run has resolved and has
\* invoked close on every such transport
C38_CloseCompletes ==
  \A c \in 1..Len(closes) :
    ~CloseAlive(c) =>
      /\ closes[c].resolved
      /\ \A t \in AttachedTo(closes[c].l) :
           tattr[t].hasClose => \E i \in 1..Len(tlog[t]) : tlog[t][i] = <<"close", c>>

\* no close() call on a child logger has invoked close on a transport that
\* is attached to the Logger the child was made from
C39_ChildCloseInv ==
  \A c \in 1..Len(closes) :
    LET p == hist.parent[closes[c].l]
    IN p # 0 =>
         \A t \in AttachedTo(p) :
           \A i \in 1..Len(tlog[t]) : tlog[t][i] # <<"close", c>>

\* a step of a close() call on a Logger leaves the closed flag and the queue
\* of its children as they are
C39_ParentCloseStep ==
  \A l \in Loggers :
    (Len(closes') = Len(closes) + 1 /\ closes'[Len(closes')].l = l) =>
      \A k \in Loggers :
        hist.parent[k] = l => isClosed'[k] = isClosed[k] /\ queue'[k] = queue[k]

\* C39: a Logger and its child are closed independently: child.close() closes
\* no transport that is still attached to the parent, and closing the parent
\* leaves the child's closed flag and queue unchanged
C39_IndependentClose == []C39_ChildCloseInv /\ [][C39_ParentCloseStep]_vars

\* the flush of transport t can no longer end: there is no cap, and an entry
\* the iterator has yet to visit will be put back behind it (its send throws,
\* or the socket of the transport is not open), to be visited again
FlushHangs(t) ==
  /\ tstate[t].flushAt # 0
  /\ tattr[t].bufferWhenDisconnected
  /\ tattr[t].maxBufferSize = 0
  /\ \E i \in tstate[t].flushAt..Len(tstate[t].buffer) :
       ~tstate[t].open \/ tstate[t].buffer[i] \in tstate[t].flushBad

\* a flush that can no longer end stays so at every step (SpecFlush)
FlushHangsForGood ==
  [][\A t \in 1..Len(tstate) : FlushHangs(t) => FlushHangs(t)']_vars

\* C40: the flush of the buffer of a WebSocketTransport terminates for every
\* buffer content, every maxBufferSize (unset or 0, meaning no cap, included)
\* and every pattern of failing sends: it is never in a state from which its
\* loop cannot end
C40_FlushTerminates == \A t \in 1..Len(tstate) : ~FlushHangs(t)

====
